---- MODULE Spec2Model ----
(***************************************************************************)
(* DENNIS: fan-out of one Query to every configured DNS resolver, with the *)
(* results persisted through one of two storage backends (a local JSON     *)
(* file behind a mutex, or RedisJSON documents keyed by Query ID).         *)
(*                                                                         *)
(* Spec     the orchestrator (app.Server) running concurrent CreateQuery   *)
(*          calls, their resolveAll goroutine and resolve tasks.           *)
(* SpecRun  Spec plus the process lifecycle of main.run (interrupt, exit). *)
(* SpecDB   the db.DB interface driven directly, one call at a time.       *)
(* SpecDeadline  Spec with fan-outs that outlast their 30 s deadline.      *)
(* SpecCancel    one call whose request context is canceled.               *)
(* SpecWide      one call, resolvers answering with any response code.     *)
(* SpecOK        Spec on storage that never fails.                         *)
(* SpecLive      as SpecOK, with weak fairness, for termination.           *)
(* SpecGet       Server.GetQuery between direct db.DB calls.               *)
(* SpecFile      Spec on the file backend, with a concurrent GetQuery.     *)
(* SpecTypes     one call, resolvers answering with every record type.     *)
(* SpecReopen    the file backend opened again between its calls.          *)
(* SpecConfig    main.run from config.Read to the chosen backend.          *)
(* SpecValidate  one call with requests of every shape Validate tells      *)
(*               apart.                                                    *)
(* SpecExpire    one call whose resolvers fail only at the deadline.       *)
(* SpecClose     SpecLive's orchestrator beside one Server.Close call.     *)
(***************************************************************************)
EXTENDS Integers, Sequences, FiniteSets, TLC

VARIABLES
    backend,    \* which db.DB implementation getDB selected: "file" | "redis"
    fileDoc,    \* file backend: the JSON document in the file (format, encoded)
    redisKeys,  \* redis backend: key -> JSON document
    mu,         \* file backend: holder of DB.mu, or NoProc
    loaded,     \* file backend: per goroutine, the format readJSON returned
    nextID,     \* uuid.NewV7 generator: the next identifier it hands out
    clock,      \* time.Now(): the next instant it returns
    faults,     \* storage faults (I/O, network) that have occurred so far
    wg,         \* Server.wg counter
    cpc,        \* per CreateQuery call: position in Server.CreateQuery
    qobj,       \* per call: the *models.Query allocated by Server.CreateQuery
    cerr,       \* per call: the error Server.CreateQuery returns
    creq,       \* per call: the *apiv1.CreateQueryRequest it was given
    rcancel,    \* per call: whether and when its request context was canceled
    rapc,       \* per call: position of its resolveAll goroutine
    wgQ,        \* per call: resolveAll's local WaitGroup counter
    dl,         \* per call: whether the fan-out context's deadline has passed
    updCalls,   \* per call: number of db.UpdateQuery calls resolveAll issued
    uerr,       \* per call: what that db.UpdateQuery returned
    tpc,        \* per call and resolver: position of the resolve goroutine
    tl,         \* per call and resolver: the *models.Lookup resolve built
    tres,       \* per call and resolver: what db.CreateLookup returned
    xres,       \* per call and resolver: what Exchange returned, and the
                \* number of db.CreateLookup calls the task made
    proc,       \* process lifecycle of main.run
    dbres,      \* SpecDB: the last direct storage call and its result
    gres,       \* SpecGet: what the last Server.GetQuery call returned, as long
                \* as storage has not been called to write since
    gpc,        \* SpecFile: position of a Server.GetQuery call that runs
                \* beside the CreateQuery calls and their fan-outs
    cfg,        \* main.run: the decoded configuration file, the position of
                \* run in its startup and the error it stopped on
    clpc        \* SpecClose: position of a Server.Close call, and the value
                \* of Server.wg's counter when it was made

vars == <<backend, fileDoc, redisKeys, mu, loaded, nextID, clock, faults, wg,
          cpc, qobj, cerr, creq, rcancel, rapc, wgQ, dl, updCalls, uerr, tpc,
          tl, tres, xres, proc, dbres, gres, gpc, cfg, clpc>>

storeVars == <<fileDoc, redisKeys>>
callVars == <<cpc, qobj, cerr, creq, rcancel>>
fanVars == <<rapc, wgQ, dl, updCalls, uerr>>
taskVars == <<tpc, tl, tres, xres>>

(***************************************************************************)
(* Bounds of the model.                                                    *)
(***************************************************************************)
MaxCalls == 2          \* CreateQuery calls received
NumResolvers == 2      \* len(cfg.Resolvers)
MaxFaults == 1         \* storage faults injected

Calls == 1..MaxCalls
Resolvers == 1..NumResolvers
Backends == {"file", "redis"}

(***************************************************************************)
(* Errors are chains of messages, outermost first: fmt.Errorf("m: %w", e)  *)
(* puts m in front of e's chain, errors.Is walks the chain.                *)
(***************************************************************************)
NoErr == <<>>
ErrQueryNotFound == <<"query not found">>
RedisNil == <<"redis: nil">>
DeadlineExceeded == <<"context deadline exceeded">>
Canceled == <<"context canceled">>
BadRequest(field, msg) == <<"BadRequest", field, msg>>
NotFound(msg) == <<"NotFound", "", msg>>

Wrap(msg, err) == <<msg>> \o err

ErrorsIs(err, target) ==
    \E i \in 1..Len(err) : SubSeq(err, i, Len(err)) = target

(***************************************************************************)
(* Goroutines that call into storage.                                      *)
(***************************************************************************)
NoProc == <<"none", 0, 0>>
CQ(c) == <<"CreateQuery", c, 0>>
RA(c) == <<"resolveAll", c, 0>>
RS(c, r) == <<"resolve", c, r>>
GQ == <<"GetQuery", 0, 0>>
Procs == {CQ(c) : c \in Calls} \cup {RA(c) : c \in Calls}
            \cup {RS(c, r) : c \in Calls, r \in Resolvers} \cup {GQ}

(***************************************************************************)
(* api/v1 request validation.  Names are sequences of characters.          *)
(***************************************************************************)
AlnumChars ==
    {"a", "b", "c", "d", "e", "f", "g", "h", "i", "j", "k", "l", "m",
     "n", "o", "p", "q", "r", "s", "t", "u", "v", "w", "x", "y", "z",
     "0", "1", "2", "3", "4", "5", "6", "7", "8", "9"}

HostChars == AlnumChars \cup {"-", "."}

RecordTypes ==
    {"A", "AAAA", "CAA", "CNAME", "DNSKEY", "MX", "NS", "PTR", "SOA", "SRV",
     "SVCB", "TXT"}

\* faulty variant: SVCB is missing from the switch
validRecordType_NoSVCB(t) == t \in RecordTypes \ {"SVCB"}

validRecordType(t) == t \in RecordTypes

\* [a-z0-9]{1,18}
tldLabel(t) == Len(t) \in 1..18 /\ \A j \in 1..Len(t) : t[j] \in AlnumChars

\* (xn\-\-)?[a-z0-9]{1,18}
tld(t) ==
    \/ tldLabel(t)
    \/ /\ Len(t) > 4
       /\ SubSeq(t, 1, 4) = <<"x", "n", "-", "-">>
       /\ tldLabel(SubSeq(t, 5, Len(t)))

\* ^([a-z0-9\-\.]+)\.((xn\-\-)?[a-z0-9]{1,18})$
validRecordName(n) ==
    \E i \in 2..(Len(n) - 1) :
        /\ n[i] = "."
        /\ \A j \in 1..(i - 1) : n[j] \in HostChars
        /\ tld(SubSeq(n, i + 1, Len(n)))

CreateQueryRequestValidate(req) ==
    IF req.Type = "" THEN BadRequest(".type", "Type of record is required")
    ELSE IF req.Name = <<>> THEN BadRequest(".name", "Name of domain is required")
    ELSE IF ~validRecordType(req.Type)
        THEN BadRequest(".type", "Record type is not supported")
    ELSE IF Len(req.Name) < 4
        THEN BadRequest(".name", "Name of domain must be at least 4 characters")
    ELSE IF Len(req.Name) > 253
        THEN BadRequest(".name", "Name of domain cannot be longest than 253 characters")
    ELSE IF ~validRecordName(req.Name)
        THEN BadRequest(".name", "Name of domain is invalid")
    ELSE NoErr

\* the requests the model's callers send: one valid, one rejected
Requests ==
    {[Type |-> "A", Name |-> <<"a", ".", "i", "o">>],
     [Type |-> "A", Name |-> <<"i", "o">>]}

\* requests for the A records of "example.com" and of "example.com."
ExampleCom == <<"e", "x", "a", "m", "p", "l", "e", ".", "c", "o", "m">>
ExampleRequests ==
    {[Type |-> "A", Name |-> ExampleCom], [Type |-> "A", Name |-> ExampleCom \o <<".">>]}

(***************************************************************************)
(* models.Query / models.Lookup.  A *time.Time is <<>> (nil) or <<t>>.     *)
(***************************************************************************)
NilID == 0
ZeroTime == 0

NewQuery(req) ==
    [ID |-> NilID, Type |-> req.Type, Name |-> req.Name, Lookups |-> <<>>,
     CreatedAt |-> ZeroTime, FinishedAt |-> <<>>]

\* &Record{TTL: ttl, Content: content}: the other fields at their zero values
NewRecord(ttl, content) ==
    [TTL |-> ttl, Priority |-> 0, Weight |-> 0, Port |-> 0, Tag |-> "",
     Content |-> content]

NewLookup(name, rtt, now) ==
    [Resolver |-> name, RTT |-> rtt, Error |-> "", Records |-> <<>>,
     ResolvedAt |-> now]

(***************************************************************************)
(* encoding/json of the models, by their struct tags.  An object is a      *)
(* function from field names; an omitempty field that is empty is absent.  *)
(***************************************************************************)
FormatTime(t) == <<"RFC3339Nano", t>>
ParseTime(s) == s[2]
UUIDString(id) == <<"uuid", id>>
UUIDFromString(s) == s[2]

\* uuid.FromString on text a client sent: an error unless it is a UUID
FromString(s) ==
    IF Len(s) = 2 /\ s[1] = "uuid" THEN [err |-> NoErr, id |-> UUIDFromString(s)]
    ELSE [err |-> <<"uuid: incorrect UUID format">>, id |-> 0]

\* the members of object j whose name is in names
Members(j, names) == [k \in DOMAIN j \cap names |-> j[k]]

\* priority, weight, port and tag are omitempty
MarshalRecord(rec) ==
    Members([ttl |-> rec.TTL, priority |-> rec.Priority, weight |-> rec.Weight,
             port |-> rec.Port, tag |-> rec.Tag, content |-> rec.Content],
            {"ttl", "content"}
                \cup (IF rec.Priority # 0 THEN {"priority"} ELSE {})
                \cup (IF rec.Weight # 0 THEN {"weight"} ELSE {})
                \cup (IF rec.Port # 0 THEN {"port"} ELSE {})
                \cup (IF rec.Tag # "" THEN {"tag"} ELSE {}))

UnmarshalRecord(j) ==
    [TTL |-> j.ttl,
     Priority |-> IF "priority" \in DOMAIN j THEN j.priority ELSE 0,
     Weight |-> IF "weight" \in DOMAIN j THEN j.weight ELSE 0,
     Port |-> IF "port" \in DOMAIN j THEN j.port ELSE 0,
     Tag |-> IF "tag" \in DOMAIN j THEN j.tag ELSE "",
     Content |-> j.content]

MarshalLookup(l) ==
    LET base == [resolver |-> l.Resolver, rtt |-> l.RTT,
                 records |-> [i \in 1..Len(l.Records) |-> MarshalRecord(l.Records[i])],
                 resolvedAt |-> FormatTime(l.ResolvedAt)]
    IN  IF l.Error = "" THEN base ELSE base @@ [error |-> l.Error]

UnmarshalLookup(j) ==
    [Resolver |-> j.resolver, RTT |-> j.rtt,
     Error |-> IF "error" \in DOMAIN j THEN j.error ELSE "",
     Records |-> [i \in 1..Len(j.records) |-> UnmarshalRecord(j.records[i])],
     ResolvedAt |-> ParseTime(j.resolvedAt)]

MarshalQuery(q) ==
    LET base == [id |-> UUIDString(q.ID), type |-> q.Type, name |-> q.Name,
                 lookups |-> [i \in 1..Len(q.Lookups) |-> MarshalLookup(q.Lookups[i])],
                 createdAt |-> FormatTime(q.CreatedAt)]
    IN  IF q.FinishedAt = <<>> THEN base
        ELSE base @@ [finishedAt |-> FormatTime(q.FinishedAt[1])]

UnmarshalQuery(j) ==
    [ID |-> UUIDFromString(j.id), Type |-> j.type, Name |-> j.name,
     Lookups |-> [i \in 1..Len(j.lookups) |-> UnmarshalLookup(j.lookups[i])],
     CreatedAt |-> ParseTime(j.createdAt),
     FinishedAt |-> IF "finishedAt" \in DOMAIN j
                    THEN <<ParseTime(j.finishedAt)>> ELSE <<>>]

MarshalFormat(f) ==
    [version |-> f.Version,
     queries |-> [i \in 1..Len(f.Queries) |-> MarshalQuery(f.Queries[i])]]

UnmarshalFormat(j) ==
    [Version |-> j.version,
     Queries |-> [i \in 1..Len(j.queries) |-> UnmarshalQuery(j.queries[i])]]

(***************************************************************************)
(* File backend (package file).                                            *)
(***************************************************************************)
IOErr == <<"input/output error">>

\* DB.init on a path that does not exist yet
InitFormat == [Version |-> 1, Queries |-> <<>>]

\* format.getQuery: index of the first Query with the ID, 0 for nil
getQuery(f, id) ==
    LET hits == {i \in 1..Len(f.Queries) : f.Queries[i].ID = id}
    IN  IF hits = {} THEN 0 ELSE CHOOSE i \in hits : \A j \in hits : i <= j

readJSON(disk, fault) ==
    IF fault THEN [err |-> Wrap("open", IOErr), f |-> InitFormat]
    ELSE [err |-> NoErr, f |-> UnmarshalFormat(disk)]

writeJSON(disk, f, fault) ==
    IF fault THEN [err |-> Wrap("open", IOErr), disk |-> disk]
    ELSE [err |-> NoErr, disk |-> MarshalFormat(f)]

\* the path names no file
NoFile == [exists |-> FALSE]

\* faulty variant: init writes the empty document whether the file exists
\* or not
FileInit_Truncate(disk, fault) ==
    LET w == writeJSON(disk, InitFormat, fault)
    IN  [err |-> IF w.err = NoErr THEN NoErr ELSE Wrap("init", w.err), disk |-> w.disk]

\* DB.init, called by New: when os.Stat fails the empty document is written
FileInit(disk, fault) ==
    IF disk # NoFile THEN [err |-> NoErr, disk |-> disk]
    ELSE LET w == writeJSON(disk, InitFormat, fault)
         IN  [err |-> IF w.err = NoErr THEN NoErr ELSE Wrap("init", w.err),
              disk |-> w.disk]

\* faulty variant: the document is written back whatever fn returned
write_Always(disk, r, fault) == writeJSON(disk, r.f, fault)

\* DB.write from the call of fn on: r is what fn returned and left in f
write(disk, r, fault) ==
    IF r.err # NoErr THEN [err |-> r.err, disk |-> disk]
    ELSE writeJSON(disk, r.f, fault)

\* faulty variant: the new Query replaces the ones in the file
FileCreateQueryFn_Only(f, query) ==
    [err |-> NoErr, f |-> [f EXCEPT !.Queries = <<query>>]]

\* the closures the file backend's methods hand to DB.write / DB.read
FileCreateQueryFn(f, query) ==
    [err |-> NoErr, f |-> [f EXCEPT !.Queries = Append(@, query)]]

FileGetQueryFn(f, id) ==
    LET i == getQuery(f, id)
    IN  IF i = 0 THEN [err |-> ErrQueryNotFound, q |-> NewQuery([Type |-> "", Name |-> <<>>])]
        ELSE [err |-> NoErr, q |-> f.Queries[i]]

\* faulty variant: sets FinishedAt on every Query instead of the one found
FileUpdateQueryFn_All(f, query) ==
    [err |-> NoErr,
     f |-> [f EXCEPT !.Queries =
                [i \in 1..Len(f.Queries) |->
                    [f.Queries[i] EXCEPT !.FinishedAt = query.FinishedAt]]]]

\* faulty variant: replaces the Query found by the one passed in
FileUpdateQueryFn_Replace(f, query) ==
    LET i == getQuery(f, query.ID)
    IN  IF i = 0 THEN [err |-> ErrQueryNotFound, f |-> f]
        ELSE [err |-> NoErr, f |-> [f EXCEPT !.Queries[i] = query]]

FileUpdateQueryFn(f, query) ==
    LET i == getQuery(f, query.ID)
    IN  IF i = 0 THEN [err |-> ErrQueryNotFound, f |-> f]
        ELSE [err |-> NoErr,
              f |-> [f EXCEPT !.Queries[i].FinishedAt = query.FinishedAt]]

\* faulty variant: the Lookup is appended twice
FileCreateLookupFn_Twice(f, queryID, l) ==
    LET i == getQuery(f, queryID)
    IN  IF i = 0 THEN [err |-> ErrQueryNotFound, f |-> f]
        ELSE [err |-> NoErr,
              f |-> [f EXCEPT !.Queries[i].Lookups = Append(Append(@, l), l)]]

FileCreateLookupFn(f, queryID, l) ==
    LET i == getQuery(f, queryID)
    IN  IF i = 0 THEN [err |-> ErrQueryNotFound, f |-> f]
        ELSE [err |-> NoErr,
              f |-> [f EXCEPT !.Queries[i].Lookups = Append(@, l)]]

\* the wrapping each method applies to what DB.write / DB.read returned
WrapIf(msg, err) == IF err = NoErr THEN NoErr ELSE Wrap(msg, err)

FileCreateQueryErr(err) == WrapIf("could not create query", err)

\* faulty variant: formats the cause with %v, which cuts the error chain
FileGetQueryByIDErr_Opaque(err) ==
    IF err = NoErr THEN NoErr ELSE <<"could not get query: (cause as text)">>

FileGetQueryByIDErr(err) == WrapIf("could not get query", err)
FileUpdateQueryErr(err) == WrapIf("could not update query", err)
FileCreateLookupErr(err) == WrapIf("could not create lookup", err)

\* faulty variant: DB.write and DB.read do not take DB.mu
MutexAvailable_NoLock == TRUE

\* DB.mu is unlocked
MutexAvailable == mu = NoProc

(***************************************************************************)
(* Redis backend (package redis).  The three RedisJSON commands behave as  *)
(* documented: JSON.SET creates a key only at the root path and otherwise  *)
(* sets or adds the addressed member of an existing document;              *)
(* JSON.ARRAPPEND needs an existing key; JSON.GET of a missing key is a    *)
(* nil reply, which the client reports as redis.Nil.                       *)
(***************************************************************************)
NetErr == <<"connection refused">>

queryKey(id) == <<"dennis:query:">> \o UUIDString(id)

Put(f, k, v) == [x \in DOMAIN f \cup {k} |-> IF x = k THEN v ELSE f[x]]

JSONSet(keys, key, path, value) ==
    IF path = "$" THEN [err |-> NoErr, keys |-> Put(keys, key, value)]
    ELSE IF key \notin DOMAIN keys
        THEN [err |-> <<"ERR new objects must be created at the root">>,
              keys |-> keys]
    ELSE [err |-> NoErr, keys |-> Put(keys, key, Put(keys[key], "finishedAt", value))]

JSONArrAppend(keys, key, value) ==
    IF key \notin DOMAIN keys
        THEN [err |-> <<"ERR could not perform this operation on a key that doesn't exist">>,
              keys |-> keys]
    ELSE [err |-> NoErr,
          keys |-> Put(keys, key, Put(keys[key], "lookups", Append(keys[key].lookups, value)))]

JSONGet(keys, key) ==
    IF key \notin DOMAIN keys THEN [err |-> RedisNil, val |-> <<>>]
    ELSE [err |-> NoErr, val |-> keys[key]]

\* a command on conn: connErr is the transport's or the context's failure
Cmd(connErr, keys, reply) ==
    IF connErr # NoErr THEN [err |-> connErr, keys |-> keys] ELSE reply

RedisCreateQuery(keys, query, connErr) ==
    LET r == Cmd(connErr, keys, JSONSet(keys, queryKey(query.ID), "$", MarshalQuery(query)))
    IN  [err |-> WrapIf("could not set JSON key", r.err), keys |-> r.keys]

RedisGetQueryByID(keys, id, connErr) ==
    LET r == IF connErr # NoErr THEN [err |-> connErr, val |-> <<>>]
             ELSE JSONGet(keys, queryKey(id))
    IN  IF ErrorsIs(r.err, RedisNil) THEN [err |-> ErrQueryNotFound, q |-> <<>>]
        ELSE IF r.err # NoErr
            THEN [err |-> Wrap("could not get JSON key", r.err), q |-> <<>>]
        ELSE [err |-> NoErr, q |-> <<UnmarshalQuery(r.val)>>]

RedisUpdateQuery(keys, query, connErr) ==
    IF query.FinishedAt # <<>>
    THEN LET r == Cmd(connErr, keys,
                      JSONSet(keys, queryKey(query.ID), "$.finishedAt",
                              FormatTime(query.FinishedAt[1])))
         IN  [err |-> WrapIf("could not update JSON key", r.err), keys |-> r.keys]
    ELSE [err |-> NoErr, keys |-> keys]

\* faulty variant: writes $.lookups as an array of the one new Lookup
\* (JSON.SET) instead of appending to it
RedisCreateLookup_Overwrite(keys, queryID, lookup, connErr) ==
    LET key == queryKey(queryID)
        r == Cmd(connErr, keys,
                 IF key \notin DOMAIN keys
                 THEN [err |-> <<"ERR new objects must be created at the root">>,
                       keys |-> keys]
                 ELSE [err |-> NoErr,
                       keys |-> Put(keys, key,
                                    Put(keys[key], "lookups", <<MarshalLookup(lookup)>>))])
    IN  [err |-> WrapIf("could not set JSON key", r.err), keys |-> r.keys]

RedisCreateLookup(keys, queryID, lookup, connErr) ==
    LET r == Cmd(connErr, keys,
                 JSONArrAppend(keys, queryKey(queryID), MarshalLookup(lookup)))
    IN  [err |-> WrapIf("could not set JSON key", r.err), keys |-> r.keys]

\* faulty variant: the ID the caller passed is kept
AssignID_KeepID(query, id, now) == [query EXCEPT !.CreatedAt = now]

\* db.CreateQuery, both backends: the ID and CreatedAt the database sets
AssignID(query, id, now) == [query EXCEPT !.ID = id, !.CreatedAt = now]


(***************************************************************************)
(* models.RecordFromRR and the Lookup Server.resolve builds.               *)
(***************************************************************************)
NilRecord == <<>>

\* faulty variant: the preference of an MX record is left out
RecordFromRR_NoPreference(rr) ==
    CASE rr.Type \in {"A", "AAAA"} -> <<NewRecord(rr.TTL, <<rr.Addr>>)>>
      [] rr.Type = "CAA" ->
            <<[NewRecord(rr.TTL, <<rr.Value>>) EXCEPT !.Tag = rr.Tag]>>
      [] rr.Type = "CNAME" -> <<NewRecord(rr.TTL, <<rr.Target>>)>>
      [] rr.Type \in {"DNSKEY", "SOA"} -> <<NewRecord(rr.TTL, <<rr.String>>)>>
      [] rr.Type = "MX" ->
            <<NewRecord(rr.TTL, <<rr.Mx>>)>>
      [] rr.Type = "NS" -> <<NewRecord(rr.TTL, <<rr.Ns>>)>>
      [] rr.Type = "PTR" -> <<NewRecord(rr.TTL, <<rr.Ptr>>)>>
      [] rr.Type = "SRV" ->
            <<[NewRecord(rr.TTL, <<rr.Target>>) EXCEPT
                    !.Priority = rr.Priority, !.Weight = rr.Weight, !.Port = rr.Port]>>
      [] rr.Type = "SVCB" ->
            <<[NewRecord(rr.TTL, <<rr.Target>>) EXCEPT !.Priority = rr.Priority]>>
      [] rr.Type = "TXT" -> <<NewRecord(rr.TTL, rr.Txt)>>
      [] OTHER -> NilRecord

\* the type switch of RecordFromRR: a one-element sequence holding the
\* Record, the empty sequence for nil
RecordFromRR(rr) ==
    CASE rr.Type \in {"A", "AAAA"} -> <<NewRecord(rr.TTL, <<rr.Addr>>)>>
      [] rr.Type = "CAA" ->
            <<[NewRecord(rr.TTL, <<rr.Value>>) EXCEPT !.Tag = rr.Tag]>>
      [] rr.Type = "CNAME" -> <<NewRecord(rr.TTL, <<rr.Target>>)>>
      [] rr.Type \in {"DNSKEY", "SOA"} -> <<NewRecord(rr.TTL, <<rr.String>>)>>
      [] rr.Type = "MX" ->
            <<[NewRecord(rr.TTL, <<rr.Mx>>) EXCEPT !.Priority = rr.Preference]>>
      [] rr.Type = "NS" -> <<NewRecord(rr.TTL, <<rr.Ns>>)>>
      [] rr.Type = "PTR" -> <<NewRecord(rr.TTL, <<rr.Ptr>>)>>
      [] rr.Type = "SRV" ->
            <<[NewRecord(rr.TTL, <<rr.Target>>) EXCEPT
                    !.Priority = rr.Priority, !.Weight = rr.Weight, !.Port = rr.Port]>>
      [] rr.Type = "SVCB" ->
            <<[NewRecord(rr.TTL, <<rr.Target>>) EXCEPT !.Priority = rr.Priority]>>
      [] rr.Type = "TXT" -> <<NewRecord(rr.TTL, rr.Txt)>>
      [] OTHER -> NilRecord

RECURSIVE Records(_)
Records(answers) ==
    IF answers = <<>> THEN <<>>
    ELSE RecordFromRR(Head(answers)) \o Records(Tail(answers))

\* dns.RcodeSuccess, and dns.RcodeToString as a Go map: the name of a
\* response code the table holds, the empty string for any other code
RcodeSuccess == 0
RcodeToString(rcode) ==
    CASE rcode = 0 -> "NOERROR"
      [] rcode = 2 -> "SERVFAIL"
      [] rcode = 3 -> "NXDOMAIN"
      [] OTHER -> ""

\* what rsv.client.Exchange can come back with: a transport failure, a name
\* error that carries an answer section, an answer
TransportErr == <<"i/o timeout">>
AnswerA == [Type |-> "A", TTL |-> 300, Addr |-> "93.184.216.34"]
AnswerRRSIG == [Type |-> "RRSIG", TTL |-> 300]
ExchangeOutcomes ==
    {[err |-> TransportErr, rcode |-> 0, answers |-> <<>>],
     [err |-> NoErr, rcode |-> 3, answers |-> <<AnswerA>>],
     [err |-> NoErr, rcode |-> 0, answers |-> <<AnswerA>>]}

\* one answer of each type RecordFromRR knows, with the fields its dns type
\* has, and one of a type it does not know
SampleRRs ==
    {AnswerA, AnswerRRSIG,
     [Type |-> "AAAA", TTL |-> 300, Addr |-> "2606:2800:220:1::1"],
     [Type |-> "CAA", TTL |-> 300, Flag |-> 0, Tag |-> "issue", Value |-> "ca.io"],
     [Type |-> "CNAME", TTL |-> 300, Target |-> "b.io."],
     [Type |-> "DNSKEY", TTL |-> 300, String |-> "257 3 13 mdss"],
     [Type |-> "MX", TTL |-> 300, Preference |-> 10, Mx |-> "mx.b.io."],
     [Type |-> "MX", TTL |-> 300, Preference |-> 0, Mx |-> "mx.b.io."],
     [Type |-> "NS", TTL |-> 300, Ns |-> "ns.b.io."],
     [Type |-> "PTR", TTL |-> 300, Ptr |-> "b.io."],
     [Type |-> "SOA", TTL |-> 300, String |-> "ns.b.io. h.b.io. 1 2 3 4 5"],
     [Type |-> "SRV", TTL |-> 300, Priority |-> 1, Weight |-> 5, Port |-> 443,
      Target |-> "s.b.io."],
     [Type |-> "SVCB", TTL |-> 300, Priority |-> 1, Target |-> "s.b.io."],
     [Type |-> "TXT", TTL |-> 300, Txt |-> <<"v=spf1", "-all">>]}

\* and more of them: a server failure, a response whose response code has no
\* name (12 is unassigned), an empty answer, an answer with a resource
\* record RecordFromRR does not support
WideOutcomes ==
    ExchangeOutcomes \cup
    {[err |-> NoErr, rcode |-> 2, answers |-> <<>>],
     [err |-> NoErr, rcode |-> 12, answers |-> <<>>],
     [err |-> NoErr, rcode |-> 0, answers |-> <<>>],
     [err |-> NoErr, rcode |-> 0, answers |-> <<AnswerRRSIG, AnswerA>>]}

resolverName(r) == r

\* faulty variant: the answers are not copied into the Lookup
BuildLookup_NoRecords(r, res, now) ==
    LET l == NewLookup(resolverName(r), 0, now)
    IN  IF res.rcode # RcodeSuccess THEN [l EXCEPT !.Error = RcodeToString(res.rcode)]
        ELSE l

\* Server.resolve from the successful Exchange to the CreateLookup call;
\* err is nil there, so errors.Is(err, context.Canceled) is false
BuildLookup(r, res, now) ==
    LET l == NewLookup(resolverName(r), 0, now)
    IN  IF res.rcode # RcodeSuccess THEN [l EXCEPT !.Error = RcodeToString(res.rcode)]
        ELSE IF ErrorsIs(NoErr, Canceled)
            THEN [l EXCEPT !.Error = "CANCELED"]
        ELSE [l EXCEPT !.Records = Records(res.answers)]

(***************************************************************************)
(* Initial state: the server has started on an empty database.             *)
(***************************************************************************)
NotCalled == <<"not called">>
NoRequest == [Type |-> "", Name |-> <<>>]
\* no Server.GetQuery call has returned since the last write
NoGet == [req |-> [ID |-> <<>>], fault |-> "none", again |-> FALSE,
          err |-> NotCalled, q |-> <<>>]

NoExchange == [out |-> [err |-> NotCalled, rcode |-> 0, answers |-> <<>>], calls |-> 0]

\* Server.Close has not been called
NoClose == [pc |-> "none", seen |-> 0]

\* the Server of NewServer, before any call, and the storage behind it but
\* for the file
InitCalls ==
    /\ redisKeys = <<>>
    /\ mu = NoProc
    /\ loaded = [p \in Procs |-> InitFormat]
    /\ nextID = 1
    /\ clock = 1
    /\ faults = 0
    /\ wg = 0
    /\ cpc = [c \in Calls |-> "idle"]
    /\ qobj = [c \in Calls |-> NewQuery(NoRequest)]
    /\ cerr = [c \in Calls |-> NoErr]
    /\ creq = [c \in Calls |-> NoRequest]
    /\ rcancel = [c \in Calls |-> "no"]
    /\ rapc = [c \in Calls |-> "none"]
    /\ wgQ = [c \in Calls |-> 0]
    /\ dl = [c \in Calls |-> FALSE]
    /\ updCalls = [c \in Calls |-> 0]
    /\ uerr = [c \in Calls |-> NotCalled]
    /\ tpc = [c \in Calls |-> [r \in Resolvers |-> "none"]]
    /\ tl = [c \in Calls |-> [r \in Resolvers |-> NewLookup(0, 0, ZeroTime)]]
    /\ tres = [c \in Calls |-> [r \in Resolvers |-> NotCalled]]
    /\ xres = [c \in Calls |-> [r \in Resolvers |-> NoExchange]]
    /\ dbres = [op |-> "none", id |-> NilID, stored |-> FALSE, fault |-> "none",
                err |-> NoErr, changed |-> FALSE]
    /\ gres = NoGet
    /\ gpc = "idle"
    /\ clpc = NoClose

\* a nil pointer
Nil == [nil |-> TRUE]

\* main.run is past its startup; the configuration it read is not kept
NoConfig == [pc |-> "serving", c |-> Nil, err |-> Nil, dberr |-> NoErr, code |-> 0]

\* the Server of NewServer, before any call, on either backend
InitServer ==
    /\ backend \in Backends
    /\ proc = "serving"
    /\ cfg = NoConfig
    /\ InitCalls

\* file.New has run on a path that named no file
Init ==
    /\ fileDoc = FileInit(NoFile, FALSE).disk
    /\ InitServer

Alive == proc # "exited"

FaultChoices == IF faults < MaxFaults THEN {FALSE, TRUE} ELSE {FALSE}
Count(fault) == IF fault THEN faults + 1 ELSE faults

\* ctx.Err() of the request context Server.CreateQuery was given
RequestCtxErr(c) == IF rcancel[c] # "no" THEN Canceled ELSE NoErr

\* faulty variant: the fan-out context is derived from the request context
FanoutCtxErr_FromRequest(c) ==
    IF rcancel[c] # "no" THEN Canceled
    ELSE IF dl[c] THEN DeadlineExceeded ELSE NoErr

\* ctx.Err() of the context resolveAll makes from context.Background() with
\* a 30 second timeout
FanoutCtxErr(c) == IF dl[c] THEN DeadlineExceeded ELSE NoErr

\* the failure of a Redis command issued under a context: the context's
\* error if it is done, else a connection fault
ConnErr(ctxErr, fault) ==
    IF ctxErr # NoErr THEN ctxErr ELSE IF fault THEN NetErr ELSE NoErr

(***************************************************************************)
(* Server.CreateQuery                                                      *)
(***************************************************************************)
\* faulty variant: the fan-out is launched whatever db.CreateQuery returned
AfterCreateQuery_IgnoreErr(err) == "launch"

\* where CreateQuery goes once db.CreateQuery has returned err
AfterCreateQuery(err) == IF err # NoErr THEN "return" ELSE "launch"

\* faulty variant: the goroutine is started without s.wg.Add(1)
wgAfterLaunch_NoAdd(n) == n

\* s.wg.Add(1) before "go s.resolveAll(query)"
wgAfterLaunch(n) == n + 1

\* faulty variant: the result of req.Validate() is not acted upon
AfterValidate_IgnoreErr(err) == "persist"

\* where CreateQuery goes once req.Validate() has returned err
AfterValidate(err) == IF err # NoErr THEN "return" ELSE "persist"

CreateQueryBegin(c, req) ==
    /\ proc = "serving"
    /\ cpc[c] = "idle"
    /\ \A d \in Calls : d < c => cpc[d] # "idle"
    /\ wg' = wg + 1
    /\ creq' = [creq EXCEPT ![c] = req]
    /\ LET err == CreateQueryRequestValidate(req)
       IN  /\ cpc' = [cpc EXCEPT ![c] = AfterValidate(err)]
           /\ cerr' = [cerr EXCEPT ![c] = err]
           /\ qobj' = IF AfterValidate(err) = "return" THEN qobj
                      ELSE [qobj EXCEPT ![c] = NewQuery(req)]
    /\ UNCHANGED <<backend, storeVars, mu, loaded, nextID, clock, faults,
                   rcancel, fanVars, taskVars, proc, dbres, gres, gpc, cfg, clpc>>

\* file.DB.CreateQuery up to readJSON inside DB.write
CreateQueryFileRead(c, fault) ==
    /\ Alive /\ backend = "file"
    /\ cpc[c] = "persist"
    /\ MutexAvailable
    /\ qobj' = [qobj EXCEPT ![c] = AssignID(@, nextID, clock)]
    /\ nextID' = nextID + 1
    /\ clock' = clock + 1
    /\ faults' = Count(fault)
    /\ LET r == readJSON(fileDoc, fault)
       IN  IF r.err # NoErr
           THEN /\ cpc' = [cpc EXCEPT ![c] = AfterCreateQuery(FileCreateQueryErr(r.err))]
                /\ cerr' = [cerr EXCEPT ![c] = FileCreateQueryErr(r.err)]
                /\ UNCHANGED <<mu, loaded>>
           ELSE /\ cpc' = [cpc EXCEPT ![c] = "persist_w"]
                /\ mu' = CQ(c)
                /\ loaded' = [loaded EXCEPT ![CQ(c)] = r.f]
                /\ cerr' = cerr
    /\ UNCHANGED <<backend, storeVars, wg, creq, rcancel, fanVars, taskVars,
                   proc, dbres, gres, gpc, cfg, clpc>>

\* file.DB.CreateQuery from fn to the unlock and the return
CreateQueryFileWrite(c, fault) ==
    /\ Alive /\ backend = "file"
    /\ cpc[c] = "persist_w"
    /\ faults' = Count(fault)
    /\ LET res == write(fileDoc, FileCreateQueryFn(loaded[CQ(c)], qobj[c]), fault)
           err == FileCreateQueryErr(res.err)
       IN  /\ fileDoc' = res.disk
           /\ cpc' = [cpc EXCEPT ![c] = AfterCreateQuery(err)]
           /\ cerr' = [cerr EXCEPT ![c] = err]
    /\ mu' = NoProc
    /\ loaded' = [loaded EXCEPT ![CQ(c)] = InitFormat]
    /\ UNCHANGED <<backend, redisKeys, nextID, clock, wg, qobj, creq, rcancel,
                   fanVars, taskVars, proc, dbres, gres, gpc, cfg, clpc>>

\* redis.DB.CreateQuery
CreateQueryRedis(c, fault) ==
    /\ Alive /\ backend = "redis"
    /\ cpc[c] = "persist"
    /\ faults' = Count(fault)
    /\ nextID' = nextID + 1
    /\ clock' = clock + 1
    /\ LET q == AssignID(qobj[c], nextID, clock)
           res == RedisCreateQuery(redisKeys, q, ConnErr(RequestCtxErr(c), fault))
       IN  /\ qobj' = [qobj EXCEPT ![c] = q]
           /\ redisKeys' = res.keys
           /\ cpc' = [cpc EXCEPT ![c] = AfterCreateQuery(res.err)]
           /\ cerr' = [cerr EXCEPT ![c] = res.err]
    /\ UNCHANGED <<backend, fileDoc, mu, loaded, wg, creq, rcancel, fanVars,
                   taskVars, proc, dbres, gres, gpc, cfg, clpc>>

\* faulty variant: s.resolveAll(query) is called, not started with "go"
ReturnWaitsFor_Call(c) == {RA(c)}

\* the goroutines whose end CreateQuery's return waits for: none, the go
\* statement starts resolveAll and goes on
ReturnWaitsFor(c) == {}

\* s.wg.Add(1); go s.resolveAll(query); return, with the deferred s.wg.Done()
CreateQueryLaunch(c) ==
    /\ Alive
    /\ cpc[c] = "launch"
    /\ RA(c) \in ReturnWaitsFor(c) => rapc[c] = "done"
    /\ wg' = wgAfterLaunch(wg) - 1
    /\ rapc' = [rapc EXCEPT ![c] = "start"]
    /\ cpc' = [cpc EXCEPT ![c] = "done"]
    /\ UNCHANGED <<backend, storeVars, mu, loaded, nextID, clock, faults, qobj,
                   cerr, creq, rcancel, wgQ, dl, updCalls, uerr, taskVars, proc,
                   dbres, gres, gpc, cfg, clpc>>

\* the return of an error, with the deferred s.wg.Done()
CreateQueryReturn(c) ==
    /\ Alive
    /\ cpc[c] = "return"
    /\ wg' = wg - 1
    /\ cpc' = [cpc EXCEPT ![c] = "done"]
    /\ UNCHANGED <<backend, storeVars, mu, loaded, nextID, clock, faults, qobj,
                   cerr, creq, rcancel, fanVars, taskVars, proc, dbres, gres, gpc, cfg, clpc>>


(***************************************************************************)
(* Server.resolveAll                                                       *)
(***************************************************************************)
\* faulty variant: resolveAll does not wait for its resolve goroutines
WaitReturns_NoBarrier(n) == TRUE

\* wg.Wait() on resolveAll's local WaitGroup returns
WaitReturns(n) == n = 0

\* where resolveAll goes once db.UpdateQuery has returned: it logs, returns
\* faulty variant: resolveAll calls UpdateQuery again when it failed
AfterUpdateQuery_Retry(err) == IF err # NoErr THEN "update" ELSE "done"

AfterUpdateQuery(err) == "done"

\* the loop "for _, rsv := range s.rsv { wg.Add(1); go s.resolve(...) }"
resolveAllSpawn(c) ==
    /\ Alive
    /\ rapc[c] = "start"
    /\ wgQ' = [wgQ EXCEPT ![c] = NumResolvers]
    /\ tpc' = [tpc EXCEPT ![c] = [r \in Resolvers |-> "exchange"]]
    /\ rapc' = [rapc EXCEPT ![c] = "wait"]
    /\ UNCHANGED <<backend, storeVars, mu, loaded, nextID, clock, faults, wg,
                   callVars, dl, updCalls, uerr, tl, tres, xres, proc, dbres, gres, gpc, cfg, clpc>>

\* an operation of call c that takes the fan-out context is still to come or
\* in progress: an Exchange, or a command of the Redis backend
UsesContext(c) ==
    \/ \E r \in Resolvers : tpc[c][r] = "exchange"
    \/ backend = "redis" /\ rapc[c] \in {"wait", "update"}

\* the 30 second deadline of the fan-out context passes
Expire(c) ==
    /\ Alive
    /\ rapc[c] \in {"wait", "update"}
    /\ UsesContext(c)
    /\ ~dl[c]
    /\ dl' = [dl EXCEPT ![c] = TRUE]
    /\ UNCHANGED <<backend, storeVars, mu, loaded, nextID, clock, faults, wg,
                   callVars, rapc, wgQ, updCalls, uerr, taskVars, proc, dbres, gres, gpc, cfg, clpc>>

\* wg.Wait() returns; now := time.Now().UTC(); query.FinishedAt = &now
resolveAllJoin(c) ==
    /\ Alive
    /\ rapc[c] = "wait"
    /\ WaitReturns(wgQ[c])
    /\ qobj' = [qobj EXCEPT ![c].FinishedAt = <<clock>>]
    /\ rapc' = [rapc EXCEPT ![c] = "update"]
    /\ UNCHANGED <<backend, storeVars, mu, loaded, nextID, clock, faults, wg, cpc,
                   cerr, creq, rcancel, wgQ, dl, updCalls, uerr, taskVars, proc,
                   dbres, gres, gpc, cfg, clpc>>

\* resolveAll returns after db.UpdateQuery returned err: the deferred cancel()
\* releases the fan-out context, the deferred s.wg.Done() deregisters
resolveAllFinish(c, err) ==
    /\ rapc' = [rapc EXCEPT ![c] = AfterUpdateQuery(err)]
    /\ uerr' = [uerr EXCEPT ![c] = err]
    /\ wg' = IF AfterUpdateQuery(err) = "done" THEN wg - 1 ELSE wg
    /\ dl' = [dl EXCEPT ![c] = FALSE]

\* file.DB.UpdateQuery up to readJSON inside DB.write
UpdateQueryFileRead(c, fault) ==
    /\ Alive /\ backend = "file"
    /\ rapc[c] = "update"
    /\ MutexAvailable
    /\ updCalls' = [updCalls EXCEPT ![c] = @ + 1]
    /\ faults' = Count(fault)
    /\ LET r == readJSON(fileDoc, fault)
       IN  IF r.err # NoErr
           THEN /\ resolveAllFinish(c, FileUpdateQueryErr(r.err))
                /\ UNCHANGED <<mu, loaded>>
           ELSE /\ rapc' = [rapc EXCEPT ![c] = "update_w"]
                /\ mu' = RA(c)
                /\ loaded' = [loaded EXCEPT ![RA(c)] = r.f]
                /\ UNCHANGED <<uerr, wg, dl>>
    /\ UNCHANGED <<backend, storeVars, nextID, clock, callVars, wgQ,
                   taskVars, proc, dbres, gres, gpc, cfg, clpc>>

\* file.DB.UpdateQuery from fn to the unlock and the return
UpdateQueryFileWrite(c, fault) ==
    /\ Alive /\ backend = "file"
    /\ rapc[c] = "update_w"
    /\ faults' = Count(fault)
    /\ LET res == write(fileDoc, FileUpdateQueryFn(loaded[RA(c)], qobj[c]), fault)
       IN  /\ fileDoc' = res.disk
           /\ resolveAllFinish(c, FileUpdateQueryErr(res.err))
    /\ mu' = NoProc
    /\ loaded' = [loaded EXCEPT ![RA(c)] = InitFormat]
    /\ UNCHANGED <<backend, redisKeys, nextID, clock, callVars, wgQ,
                   updCalls, taskVars, proc, dbres, gres, gpc, cfg, clpc>>

\* redis.DB.UpdateQuery, under the fan-out context
UpdateQueryRedis(c, fault) ==
    /\ Alive /\ backend = "redis"
    /\ rapc[c] = "update"
    /\ updCalls' = [updCalls EXCEPT ![c] = @ + 1]
    /\ faults' = Count(fault)
    /\ LET res == RedisUpdateQuery(redisKeys, qobj[c], ConnErr(FanoutCtxErr(c), fault))
       IN  /\ redisKeys' = res.keys
           /\ resolveAllFinish(c, res.err)
    /\ UNCHANGED <<backend, fileDoc, mu, loaded, nextID, clock, callVars, wgQ,
                   taskVars, proc, dbres, gres, gpc, cfg, clpc>>

(***************************************************************************)
(* Server.resolve                                                          *)
(***************************************************************************)
NoLookup == NewLookup(0, 0, ZeroTime)

\* faulty variant: resolve returns without wg.Done()
resolveReturn_NoDone(c, r) ==
    /\ tpc' = [tpc EXCEPT ![c][r] = "done"]
    /\ tl' = [tl EXCEPT ![c][r] = NoLookup]
    /\ wgQ' = wgQ

\* resolve returns: deferred wg.Done() on resolveAll's WaitGroup; its Lookup
\* is dropped with the goroutine
resolveReturn(c, r) ==
    /\ tpc' = [tpc EXCEPT ![c][r] = "done"]
    /\ tl' = [tl EXCEPT ![c][r] = NoLookup]
    /\ wgQ' = [wgQ EXCEPT ![c] = @ - 1]

\* faulty variant: the error of Exchange is logged but resolve goes on
AfterExchange_NoReturn(err) == "lookup"

\* where resolve goes once rsv.client.Exchange has returned err
AfterExchange(err) == IF err # NoErr THEN "return" ELSE "lookup"

\* rsv.client.Exchange returns; on success the Lookup is built
resolveExchange(c, r, out) ==
    /\ Alive
    /\ tpc[c][r] = "exchange"
    /\ FanoutCtxErr(c) # NoErr => out.err # NoErr
    /\ xres' = [xres EXCEPT ![c][r].out = out]
    /\ IF AfterExchange(out.err) = "return"
       THEN resolveReturn(c, r)
       ELSE /\ tl' = [tl EXCEPT ![c][r] = BuildLookup(r, out, clock)]
            /\ tpc' = [tpc EXCEPT ![c][r] = "lookup"]
            /\ wgQ' = wgQ
    /\ UNCHANGED <<backend, storeVars, mu, loaded, nextID, clock, faults, wg,
                   callVars, rapc, dl, updCalls, uerr, tres, proc, dbres, gres, gpc, cfg, clpc>>

\* file.DB.CreateLookup up to readJSON inside DB.write
CreateLookupFileRead(c, r, fault) ==
    /\ Alive /\ backend = "file"
    /\ tpc[c][r] = "lookup"
    /\ MutexAvailable
    /\ faults' = Count(fault)
    /\ xres' = [xres EXCEPT ![c][r].calls = @ + 1]
    /\ LET rd == readJSON(fileDoc, fault)
       IN  IF rd.err # NoErr
           THEN /\ resolveReturn(c, r)
                /\ tres' = [tres EXCEPT ![c][r] = FileCreateLookupErr(rd.err)]
                /\ UNCHANGED <<mu, loaded>>
           ELSE /\ tpc' = [tpc EXCEPT ![c][r] = "lookup_w"]
                /\ mu' = RS(c, r)
                /\ loaded' = [loaded EXCEPT ![RS(c, r)] = rd.f]
                /\ UNCHANGED <<tres, wgQ, tl>>
    /\ UNCHANGED <<backend, storeVars, nextID, clock, wg, callVars, rapc, dl,
                   updCalls, uerr, proc, dbres, gres, gpc, cfg, clpc>>

\* file.DB.CreateLookup from fn to the unlock and the return
CreateLookupFileWrite(c, r, fault) ==
    /\ Alive /\ backend = "file"
    /\ tpc[c][r] = "lookup_w"
    /\ faults' = Count(fault)
    /\ LET res == write(fileDoc,
                        FileCreateLookupFn(loaded[RS(c, r)], qobj[c].ID, tl[c][r]),
                        fault)
       IN  /\ fileDoc' = res.disk
           /\ tres' = [tres EXCEPT ![c][r] = FileCreateLookupErr(res.err)]
    /\ resolveReturn(c, r)
    /\ mu' = NoProc
    /\ loaded' = [loaded EXCEPT ![RS(c, r)] = InitFormat]
    /\ UNCHANGED <<backend, redisKeys, nextID, clock, wg, callVars, rapc, dl,
                   updCalls, uerr, xres, proc, dbres, gres, gpc, cfg, clpc>>

\* redis.DB.CreateLookup, under the fan-out context
CreateLookupRedis(c, r, fault) ==
    /\ Alive /\ backend = "redis"
    /\ tpc[c][r] = "lookup"
    /\ faults' = Count(fault)
    /\ xres' = [xres EXCEPT ![c][r].calls = @ + 1]
    /\ LET res == RedisCreateLookup(redisKeys, qobj[c].ID, tl[c][r],
                                    ConnErr(FanoutCtxErr(c), fault))
       IN  /\ redisKeys' = res.keys
           /\ tres' = [tres EXCEPT ![c][r] = res.err]
    /\ resolveReturn(c, r)
    /\ UNCHANGED <<backend, fileDoc, mu, loaded, nextID, clock, wg, callVars,
                   rapc, dl, updCalls, uerr, proc, dbres, gres, gpc, cfg, clpc>>

(***************************************************************************)
(* The orchestrator.                                                       *)
(***************************************************************************)
Next ==
    \/ \E c \in Calls, req \in Requests : CreateQueryBegin(c, req)
    \/ \E c \in Calls, fault \in FaultChoices : CreateQueryFileRead(c, fault)
    \/ \E c \in Calls, fault \in FaultChoices : CreateQueryFileWrite(c, fault)
    \/ \E c \in Calls, fault \in FaultChoices : CreateQueryRedis(c, fault)
    \/ \E c \in Calls : CreateQueryLaunch(c)
    \/ \E c \in Calls : CreateQueryReturn(c)
    \/ \E c \in Calls : resolveAllSpawn(c)
    \/ \E c \in Calls : resolveAllJoin(c)
    \/ \E c \in Calls, fault \in FaultChoices : UpdateQueryFileRead(c, fault)
    \/ \E c \in Calls, fault \in FaultChoices : UpdateQueryFileWrite(c, fault)
    \/ \E c \in Calls, fault \in FaultChoices : UpdateQueryRedis(c, fault)
    \/ \E c \in Calls, r \in Resolvers, out \in ExchangeOutcomes :
            resolveExchange(c, r, out)
    \/ \E c \in Calls, r \in Resolvers, fault \in FaultChoices :
            CreateLookupFileRead(c, r, fault)
    \/ \E c \in Calls, r \in Resolvers, fault \in FaultChoices :
            CreateLookupFileWrite(c, r, fault)
    \/ \E c \in Calls, r \in Resolvers, fault \in FaultChoices :
            CreateLookupRedis(c, r, fault)

Spec == Init /\ [][Next]_vars

\* the orchestrator serving the calls cs with requests from reqs, resolver r
\* answering with one of outs[r], and storage faults from fs
Orchestrator(cs, reqs, outs, fs) ==
    \/ \E c \in cs, req \in reqs : CreateQueryBegin(c, req)
    \/ \E c \in cs, fault \in fs : CreateQueryFileRead(c, fault)
    \/ \E c \in cs, fault \in fs : CreateQueryFileWrite(c, fault)
    \/ \E c \in cs, fault \in fs : CreateQueryRedis(c, fault)
    \/ \E c \in cs : CreateQueryLaunch(c)
    \/ \E c \in cs : CreateQueryReturn(c)
    \/ \E c \in cs : resolveAllSpawn(c)
    \/ \E c \in cs : resolveAllJoin(c)
    \/ \E c \in cs, fault \in fs : UpdateQueryFileRead(c, fault)
    \/ \E c \in cs, fault \in fs : UpdateQueryFileWrite(c, fault)
    \/ \E c \in cs, fault \in fs : UpdateQueryRedis(c, fault)
    \/ \E c \in cs, r \in Resolvers : \E out \in outs[r] : resolveExchange(c, r, out)
    \/ \E c \in cs, r \in Resolvers, fault \in fs : CreateLookupFileRead(c, r, fault)
    \/ \E c \in cs, r \in Resolvers, fault \in fs : CreateLookupFileWrite(c, r, fault)
    \/ \E c \in cs, r \in Resolvers, fault \in fs : CreateLookupRedis(c, r, fault)

\* one call at a time, resolvers answering with anything of WideOutcomes
NextWide == Orchestrator({1}, Requests, [r \in Resolvers |-> WideOutcomes], FaultChoices)

SpecWide == Init /\ [][NextWide]_vars

\* the orchestrator on storage that works, each goroutine getting to run
NextOK ==
    Orchestrator(Calls, Requests \cup ExampleRequests,
                 [r \in Resolvers |-> ExchangeOutcomes], {FALSE})

SpecOK == Init /\ [][NextOK]_vars /\ WF_vars(NextOK)

\* what a resolver that is reachable or not answers a name that exists
LiveOutcomes == {o \in ExchangeOutcomes : o.rcode = RcodeSuccess}

\* the orchestrator on storage that works, with resolvers that answer or fail;
\* weak fairness: the Go scheduler lets every runnable goroutine run
NextLive ==
    Orchestrator(Calls, Requests, [r \in Resolvers |-> LiveOutcomes], {FALSE})

SpecLive == Init /\ [][NextLive]_vars /\ WF_vars(NextLive)

(***************************************************************************)
(* One call with requests of every shape CreateQueryRequest.Validate tells  *)
(* apart.                                                                   *)
(***************************************************************************)
MaxShortName == 5      \* names over {a, .} are enumerated up to this length

\* n times the character ch
Repeat(ch, n) == [i \in 1..n |-> ch]

\* the types clients send: the supported ones, none, lower case, unsupported
SampleTypes == RecordTypes \cup {"", "a", "ANY", "RRSIG"}

\* the names clients send: every name over {a, .} up to MaxShortName
\* characters; names with a hyphen, an upper-case letter, an underscore, a
\* trailing dot; punycode TLDs; TLDs of 18 and 19 characters; names of 252
\* to 254 characters, and one of 253 that does not match
SampleNames ==
    UNION {[1..n -> {"a", "."}] : n \in 0..MaxShortName}
    \cup {<<"-", ".", "i", "o">>, <<"a", ".", "I", "O">>, <<"a", "_", ".", "i", "o">>,
          <<"a", ".", "i", "o", ".">>, <<"a", ".", "i", "-">>,
          <<"a", ".", "x", "n", "-", "-", "p", "1">>, <<"a", ".", "x", "n", "-", "-">>,
          <<"x", "n", "-", "-", "p", "1">>}
    \cup {<<"a", ".">> \o Repeat("b", n) : n \in {18, 19}}
    \cup {<<"a", ".", "x", "n", "-", "-">> \o Repeat("b", n) : n \in {18, 19}}
    \cup {Repeat("a", n) \o <<".", "i", "o">> : n \in {249, 250, 251}}
    \cup {Repeat("_", 250) \o <<".", "i", "o">>}

ValidateRequests == [Type : SampleTypes, Name : SampleNames]

NextValidate ==
    Orchestrator({1}, ValidateRequests, [r \in Resolvers |-> LiveOutcomes], {FALSE})

SpecValidate == Init /\ [][NextValidate]_vars

\* resolvers answering a name that exists with one record of any type
TypedOutcomes ==
    {[err |-> NoErr, rcode |-> RcodeSuccess, answers |-> <<rr>>] : rr \in SampleRRs}

\* one call on storage that works, resolvers answering with any record type
NextTypes ==
    Orchestrator({1}, Requests, [r \in Resolvers |-> TypedOutcomes], {FALSE})

SpecTypes == Init /\ [][NextTypes]_vars

\* the orchestrator with fan-outs that can outlast their 30 second deadline
NextDeadline == Next \/ \E c \in Calls : Expire(c)

SpecDeadline == Init /\ [][NextDeadline]_vars

\* a goroutine calls Server.Close and blocks in s.wg.Wait()
CloseCall ==
    /\ Alive
    /\ clpc.pc = "none"
    /\ clpc' = [pc |-> "wait", seen |-> wg]
    /\ UNCHANGED <<backend, storeVars, mu, loaded, nextID, clock, faults, wg,
                   callVars, fanVars, taskVars, proc, dbres, gres, gpc, cfg>>

\* s.wg.Wait() returns and Close returns nil; the Server is as it was
CloseReturn ==
    /\ Alive
    /\ clpc.pc = "wait"
    /\ WaitReturns(wg)
    /\ clpc' = [clpc EXCEPT !.pc = "returned"]
    /\ UNCHANGED <<backend, storeVars, mu, loaded, nextID, clock, faults, wg,
                   callVars, fanVars, taskVars, proc, dbres, gres, gpc, cfg>>

\* the orchestrator on storage that works, and one call of Server.Close at
\* any moment
NextClose ==
    \/ Orchestrator(Calls, Requests, [r \in Resolvers |-> LiveOutcomes], {FALSE})
    \/ CloseCall
    \/ CloseReturn

SpecClose == Init /\ [][NextClose]_vars

\* what a resolver that is reachable answers
AnswerOutcomes == {o \in ExchangeOutcomes : o.err = NoErr}

\* one call on storage that works, with resolvers that always answer: an
\* Exchange fails only when the fan-out's deadline has passed
NextExpire ==
    \/ Orchestrator({1}, Requests,
                    [r \in Resolvers |-> IF dl[1] THEN ExchangeOutcomes ELSE AnswerOutcomes],
                    {FALSE})
    \/ Expire(1)

SpecExpire == Init /\ [][NextExpire]_vars

\* the context of the request that made call c is canceled (the client went
\* away, or the HTTP handler returned): "before" the fan-out has started its
\* resolve goroutines, or "during" the fan-out
Cancel(c) ==
    /\ Alive
    /\ cpc[c] # "idle" /\ rapc[c] # "done"
    /\ rcancel[c] = "no"
    /\ rcancel' = [rcancel EXCEPT ![c] =
                      IF rapc[c] \in {"none", "start"} THEN "before" ELSE "during"]
    /\ UNCHANGED <<backend, storeVars, mu, loaded, nextID, clock, faults, wg, cpc,
                   qobj, cerr, creq, fanVars, taskVars, proc, dbres, gres, gpc, cfg, clpc>>

\* one call whose request context can be canceled and whose fan-out can
\* outlast its 30 second deadline
NextCancel ==
    \/ Orchestrator({1}, Requests, [r \in Resolvers |-> ExchangeOutcomes], FaultChoices)
    \/ Cancel(1)
    \/ Expire(1)

SpecCancel == Init /\ [][NextCancel]_vars


(***************************************************************************)
(* main.run: the process around the server.  The interrupt makes the       *)
(* shutdown goroutine call http.Server.Shutdown; ListenAndServe then       *)
(* returns http.ErrServerClosed at once, run returns 0 and main calls      *)
(* os.Exit.  run never calls Server.Close.                                 *)
(***************************************************************************)
Interrupt ==
    /\ proc = "serving"
    /\ proc' = "shutdown"
    /\ UNCHANGED <<backend, storeVars, mu, loaded, nextID, clock, faults, wg,
                   callVars, fanVars, taskVars, dbres, gres, gpc, cfg, clpc>>

ProcessExit ==
    /\ proc = "shutdown"
    /\ proc' = "exited"
    /\ UNCHANGED <<backend, storeVars, mu, loaded, nextID, clock, faults, wg,
                   callVars, fanVars, taskVars, dbres, gres, gpc, cfg, clpc>>

NextRun == Next \/ Interrupt \/ ProcessExit

SpecRun == Init /\ [][NextRun]_vars

(***************************************************************************)
(* What is stored, read back the way GetQueryByID decodes it.              *)
(***************************************************************************)
IDs == 1..(MaxCalls + 1)

\* the positions in the file's queries array of the documents with the ID
FileHits(id) ==
    {i \in 1..Len(fileDoc.queries) : fileDoc.queries[i].id = UUIDString(id)}

Stored(id) ==
    IF backend = "file" THEN FileHits(id) # {}
    ELSE queryKey(id) \in DOMAIN redisKeys

StoredQuery(id) ==
    IF backend = "file"
    THEN UnmarshalQuery(fileDoc.queries[CHOOSE i \in FileHits(id) :
                                            \A j \in FileHits(id) : i <= j])
    ELSE UnmarshalQuery(redisKeys[queryKey(id)])

StoredLookups(id) == StoredQuery(id).Lookups

\* how many of the stored Lookups of Query id name resolver r
LookupsOf(id, r) ==
    Cardinality({i \in 1..Len(StoredLookups(id)) :
                    StoredLookups(id)[i].Resolver = resolverName(r)})

(***************************************************************************)
(* The db.DB interface called directly, one call at a time, with any       *)
(* argument: stored and unknown IDs, with and without a storage fault.     *)
(***************************************************************************)
FaultKinds == IF faults < MaxFaults THEN {"none", "read", "write"} ELSE {"none"}
CountKind(fk) == IF fk = "none" THEN faults ELSE faults + 1

\* what DB.write and DB.read get from readJSON under the lock
FileRead(disk, fk) == readJSON(disk, fk = "read")

\* file.DB.write as a whole: lock, readJSON (rd), fn (r, what fn returned
\* and left in rd.f), writeJSON, unlock
FileWriteCall(disk, rd, r, fk) ==
    IF rd.err # NoErr THEN [err |-> rd.err, disk |-> disk]
    ELSE write(disk, r, fk = "write")

\* file.DB.read as a whole: lock, readJSON (rd), fn (r), unlock
FileReadCall(rd, r) ==
    IF rd.err # NoErr THEN [err |-> rd.err] ELSE [err |-> r.err]

\* the record of a call: whether the ID was stored when it was made, what it
\* returned and whether it left the store (now disk, keys) different
DBResult(op, id, fk, err, disk, keys) ==
    [op |-> op, id |-> id, stored |-> Stored(id), fault |-> fk, err |-> err,
     changed |-> (disk # fileDoc \/ keys # redisKeys)]

\* the Queries a direct caller passes to CreateQuery
DBNewQueries ==
    {[NewQuery([Type |-> "A", Name |-> <<"a", ".", "i", "o">>]) EXCEPT !.ID = id] :
        id \in {NilID, 1}}

\* the Queries a direct caller passes to UpdateQuery
DBUpdates ==
    {[NewQuery([Type |-> "MX", Name |-> <<"b", ".", "i", "o">>])
        EXCEPT !.ID = id, !.FinishedAt = fin] :
        id \in IDs, fin \in {<<>>, <<clock>>}}

\* the Lookups a direct caller passes to CreateLookup
DBLookups ==
    {BuildLookup(r, CHOOSE o \in ExchangeOutcomes : o.err = NoErr /\ o.rcode = RcodeSuccess, clock) :
        r \in Resolvers}

DBCreateQuery(query, fk) ==
    /\ nextID <= MaxCalls
    /\ nextID' = nextID + 1
    /\ clock' = clock + 1
    /\ faults' = CountKind(fk)
    /\ LET q == AssignID(query, nextID, clock)
           rd == FileRead(fileDoc, fk)
       IN  IF backend = "file"
           THEN LET res == FileWriteCall(fileDoc, rd, FileCreateQueryFn(rd.f, q), fk)
                IN  /\ fileDoc' = res.disk
                    /\ redisKeys' = redisKeys
                    /\ dbres' = DBResult("CreateQuery", q.ID, fk,
                                         FileCreateQueryErr(res.err), res.disk, redisKeys)
           ELSE LET res == RedisCreateQuery(redisKeys, q, ConnErr(NoErr, fk # "none"))
                IN  /\ redisKeys' = res.keys
                    /\ fileDoc' = fileDoc
                    /\ dbres' = DBResult("CreateQuery", q.ID, fk, res.err, fileDoc,
                                         res.keys)
    /\ UNCHANGED <<backend, mu, loaded, wg, callVars, fanVars, taskVars, proc>>

DBGetQueryByID(id, fk) ==
    /\ faults' = CountKind(fk)
    /\ LET rd == FileRead(fileDoc, fk)
       IN  IF backend = "file"
           THEN dbres' = DBResult("GetQueryByID", id, fk,
                                  FileGetQueryByIDErr(
                                      FileReadCall(rd, FileGetQueryFn(rd.f, id)).err),
                                  fileDoc, redisKeys)
           ELSE dbres' = DBResult("GetQueryByID", id, fk,
                                  RedisGetQueryByID(redisKeys, id,
                                                    ConnErr(NoErr, fk # "none")).err,
                                  fileDoc, redisKeys)
    /\ UNCHANGED <<backend, storeVars, mu, loaded, nextID, clock, wg, callVars,
                   fanVars, taskVars, proc>>

DBUpdateQuery(query, fk) ==
    /\ faults' = CountKind(fk)
    /\ LET rd == FileRead(fileDoc, fk)
       IN  IF backend = "file"
           THEN LET res == FileWriteCall(fileDoc, rd, FileUpdateQueryFn(rd.f, query), fk)
                IN  /\ fileDoc' = res.disk
                    /\ redisKeys' = redisKeys
                    /\ dbres' = DBResult("UpdateQuery", query.ID, fk,
                                         FileUpdateQueryErr(res.err), res.disk, redisKeys)
           ELSE LET res == RedisUpdateQuery(redisKeys, query,
                                            ConnErr(NoErr, fk # "none"))
                IN  /\ redisKeys' = res.keys
                    /\ fileDoc' = fileDoc
                    /\ dbres' = DBResult("UpdateQuery", query.ID, fk, res.err, fileDoc,
                                         res.keys)
    /\ UNCHANGED <<backend, mu, loaded, nextID, clock, wg, callVars, fanVars,
                   taskVars, proc>>

DBCreateLookup(id, l, fk) ==
    /\ Stored(id) => Len(StoredLookups(id)) < NumResolvers
    /\ faults' = CountKind(fk)
    /\ LET rd == FileRead(fileDoc, fk)
       IN  IF backend = "file"
           THEN LET res == FileWriteCall(fileDoc, rd, FileCreateLookupFn(rd.f, id, l), fk)
                IN  /\ fileDoc' = res.disk
                    /\ redisKeys' = redisKeys
                    /\ dbres' = DBResult("CreateLookup", id, fk,
                                         FileCreateLookupErr(res.err), res.disk, redisKeys)
           ELSE LET res == RedisCreateLookup(redisKeys, id, l,
                                             ConnErr(NoErr, fk # "none"))
                IN  /\ redisKeys' = res.keys
                    /\ fileDoc' = fileDoc
                    /\ dbres' = DBResult("CreateLookup", id, fk, res.err, fileDoc,
                                         res.keys)
    /\ UNCHANGED <<backend, mu, loaded, nextID, clock, wg, callVars, fanVars,
                   taskVars, proc>>

NextDB ==
    \/ \E q \in DBNewQueries, fk \in FaultKinds :
            DBCreateQuery(q, fk) /\ UNCHANGED <<gres, gpc, cfg, clpc>>
    \/ \E id \in IDs, fk \in FaultKinds :
            DBGetQueryByID(id, fk) /\ UNCHANGED <<gres, gpc, cfg, clpc>>
    \/ \E q \in DBUpdates, fk \in FaultKinds :
            DBUpdateQuery(q, fk) /\ UNCHANGED <<gres, gpc, cfg, clpc>>
    \/ \E id \in IDs, l \in DBLookups, fk \in FaultKinds :
            DBCreateLookup(id, l, fk) /\ UNCHANGED <<gres, gpc, cfg, clpc>>

SpecDB == Init /\ [][NextDB]_vars

(***************************************************************************)
(* Server.GetQuery, called between direct storage calls.                   *)
(***************************************************************************)
\* GetQueryRequest.Validate
GetQueryRequestValidate(req) ==
    IF req.ID = <<>> THEN BadRequest(".id", "ID of Query is required") ELSE NoErr

\* the ID texts clients send: none, not a UUID, the UUIDs of IDs
GetRequests ==
    {[ID |-> s] : s \in {<<>>, <<"not-a-uuid">>} \cup {UUIDString(id) : id \in IDs}}

\* s.db.GetQueryByID(ctx, id) under the backend in use
GetQueryByID(id, fk) ==
    IF backend = "file"
    THEN LET rd == FileRead(fileDoc, fk)
             fn == FileGetQueryFn(rd.f, id)
             err == FileGetQueryByIDErr(FileReadCall(rd, fn).err)
         IN  [err |-> err, q |-> IF err = NoErr THEN <<fn.q>> ELSE <<>>]
    ELSE RedisGetQueryByID(redisKeys, id, ConnErr(NoErr, fk # "none"))

\* what Server.GetQuery returns: the response's Query, or the error
GetQueryResult(req, fk) ==
    IF GetQueryRequestValidate(req) # NoErr
    THEN [err |-> GetQueryRequestValidate(req), q |-> <<>>]
    ELSE IF FromString(req.ID).err # NoErr
    THEN [err |-> BadRequest(".id", "Invalid UUID for Query ID"), q |-> <<>>]
    ELSE LET res == GetQueryByID(FromString(req.ID).id, fk)
         IN  IF ErrorsIs(res.err, ErrQueryNotFound)
             THEN [err |-> NotFound("Query not found by ID"), q |-> <<>>]
             ELSE IF res.err # NoErr THEN [err |-> res.err, q |-> <<>>]
             ELSE [err |-> NoErr, q |-> res.q]

\* whether GetQuery with this request gets as far as the storage call
ReachesStorage(req) ==
    GetQueryRequestValidate(req) = NoErr /\ FromString(req.ID).err = NoErr

\* faulty variant: reading a Query also stamps it finished
ServerGetQuery_Touch(req, fk) ==
    /\ ReachesStorage(req) => faults' = CountKind(fk)
    /\ ~ReachesStorage(req) => fk = "none" /\ faults' = faults
    /\ gres' = [req |-> req, fault |-> fk,
                again |-> (dbres.op = "Server.GetQuery" /\ gres.req = req),
                err |-> GetQueryResult(req, fk).err, q |-> GetQueryResult(req, fk).q]
    /\ dbres' = DBResult("Server.GetQuery", FromString(req.ID).id, fk,
                         GetQueryResult(req, fk).err, fileDoc, redisKeys)
    /\ LET q == [NewQuery(NoRequest) EXCEPT !.ID = FromString(req.ID).id,
                                            !.FinishedAt = <<clock>>]
       IN  IF backend = "file"
           THEN /\ fileDoc' = FileWriteCall(fileDoc, FileRead(fileDoc, "none"),
                                   FileUpdateQueryFn(FileRead(fileDoc, "none").f, q),
                                   "none").disk
                /\ redisKeys' = redisKeys
           ELSE /\ redisKeys' = RedisUpdateQuery(redisKeys, q, NoErr).keys
                /\ fileDoc' = fileDoc
    /\ UNCHANGED <<backend, mu, loaded, nextID, clock, wg, callVars,
                   fanVars, taskVars, proc, gpc, cfg, clpc>>

\* Server.GetQuery from s.wg.Add(1) to the deferred s.wg.Done(): the counter
\* is back where it was when the call returns
ServerGetQuery(req, fk) ==
    /\ ReachesStorage(req) => faults' = CountKind(fk)
    /\ ~ReachesStorage(req) => fk = "none" /\ faults' = faults
    /\ gres' = [req |-> req, fault |-> fk,
                again |-> (dbres.op = "Server.GetQuery" /\ gres.req = req),
                err |-> GetQueryResult(req, fk).err, q |-> GetQueryResult(req, fk).q]
    /\ dbres' = DBResult("Server.GetQuery", FromString(req.ID).id, fk,
                         GetQueryResult(req, fk).err, fileDoc, redisKeys)
    /\ UNCHANGED <<backend, storeVars, mu, loaded, nextID, clock, wg, callVars,
                   fanVars, taskVars, proc, gpc, cfg, clpc>>

\* storage written by direct calls that succeed, read through Server.GetQuery
NextGet ==
    \/ \E q \in DBNewQueries : DBCreateQuery(q, "none") /\ gres' = NoGet /\ UNCHANGED <<gpc, cfg, clpc>>
    \/ \E q \in DBUpdates : DBUpdateQuery(q, "none") /\ gres' = NoGet /\ UNCHANGED <<gpc, cfg, clpc>>
    \/ \E id \in IDs, l \in DBLookups : DBCreateLookup(id, l, "none") /\ gres' = NoGet /\ UNCHANGED <<gpc, cfg, clpc>>
    \/ \E req \in GetRequests, fk \in FaultKinds : ServerGetQuery(req, fk)

SpecGet == Init /\ [][NextGet]_vars

(***************************************************************************)
(* The file backend opened again and again on one path, by a caller that   *)
(* keeps the Queries it persisted (qobj) with the Lookups it added.        *)
(***************************************************************************)
\* answers and a name error that make Lookups of every shape
RoundTripOutcomes ==
    {o \in TypedOutcomes :
        o.answers[1].Type \in {"CAA", "SRV", "TXT", "RRSIG"}}
        \cup {o \in ExchangeOutcomes : o.rcode # RcodeSuccess}

\* file.New(path)
FileNew(fault) ==
    /\ backend = "file"
    /\ faults' = Count(fault)
    /\ fileDoc' = FileInit(fileDoc, fault).disk
    /\ mu' = NoProc
    /\ dbres' = [op |-> "New", id |-> NilID, stored |-> fileDoc # NoFile,
                 fault |-> IF fault THEN "write" ELSE "none",
                 err |-> FileInit(fileDoc, fault).err,
                 changed |-> FileInit(fileDoc, fault).disk # fileDoc]
    /\ gres' = NoGet
    /\ UNCHANGED <<backend, redisKeys, loaded, nextID, clock, wg, callVars,
                   fanVars, taskVars, proc, gpc, cfg, clpc>>

\* file.DB.CreateQuery(ctx, query) by caller c, who keeps the *models.Query
FilePersist(c, req, fk) ==
    /\ backend = "file"
    /\ cpc[c] = "idle"
    /\ \A d \in Calls : d < c => cpc[d] # "idle"
    /\ nextID' = nextID + 1
    /\ clock' = clock + 1
    /\ faults' = CountKind(fk)
    /\ LET q == AssignID(NewQuery(req), nextID, clock)
           rd == FileRead(fileDoc, fk)
           res == FileWriteCall(fileDoc, rd, FileCreateQueryFn(rd.f, q), fk)
       IN  /\ fileDoc' = res.disk
           /\ qobj' = [qobj EXCEPT ![c] = q]
           /\ cerr' = [cerr EXCEPT ![c] = FileCreateQueryErr(res.err)]
           /\ dbres' = DBResult("CreateQuery", q.ID, fk, FileCreateQueryErr(res.err),
                                res.disk, redisKeys)
    /\ cpc' = [cpc EXCEPT ![c] = "done"]
    /\ creq' = [creq EXCEPT ![c] = req]
    /\ gres' = NoGet
    /\ UNCHANGED <<backend, redisKeys, mu, loaded, wg, rcancel, fanVars, taskVars,
                   proc, gpc, cfg, clpc>>

\* file.DB.CreateLookup(ctx, query.ID, l) by caller c, who appends l to the
\* Lookups of its Query when the call succeeded
FileAddLookup(c, out, fk) ==
    /\ backend = "file"
    /\ cpc[c] = "done" /\ cerr[c] = NoErr
    /\ Len(qobj[c].Lookups) < NumResolvers
    /\ faults' = CountKind(fk)
    /\ LET l == BuildLookup(Len(qobj[c].Lookups) + 1, out, clock)
           rd == FileRead(fileDoc, fk)
           res == FileWriteCall(fileDoc, rd, FileCreateLookupFn(rd.f, qobj[c].ID, l), fk)
       IN  /\ fileDoc' = res.disk
           /\ qobj' = IF res.err = NoErr
                      THEN [qobj EXCEPT ![c].Lookups = Append(@, l)] ELSE qobj
           /\ dbres' = DBResult("CreateLookup", qobj[c].ID, fk,
                                FileCreateLookupErr(res.err), res.disk, redisKeys)
    /\ gres' = NoGet
    /\ UNCHANGED <<backend, redisKeys, mu, loaded, nextID, clock, wg, cpc, cerr,
                   creq, rcancel, fanVars, taskVars, proc, gpc, cfg, clpc>>

\* the path names no file at first; every call but New needs an open backend
InitReopen ==
    /\ backend = "file"
    /\ fileDoc = NoFile
    /\ InitServer

NextReopen ==
    \/ \E fault \in FaultChoices : FileNew(fault)
    \/ fileDoc # NoFile /\
            \E c \in Calls, req \in {r \in Requests : CreateQueryRequestValidate(r) = NoErr},
               fk \in FaultKinds : FilePersist(c, req, fk)
    \/ fileDoc # NoFile /\
            \E c \in Calls, out \in RoundTripOutcomes, fk \in FaultKinds :
                FileAddLookup(c, out, fk)
    \/ fileDoc # NoFile /\
            \E req \in GetRequests, fk \in FaultKinds : ServerGetQuery(req, fk)

SpecReopen == InitReopen /\ [][NextReopen]_vars

(***************************************************************************)
(* Startup: main.run reads the configuration (config.Read, which validates *)
(* it with Config.Validate) and opens the backend it names (getDB).        *)
(* Strings that the code concatenates or tests by prefix are sequences: a  *)
(* ValidationError's Field is the sequence of its path elements, a file    *)
(* path is the sequence of its elements and separators.                    *)
(***************************************************************************)
\* filepath.IsAbs on Unix: the path begins with a separator
IsAbs(path) == path # <<>> /\ Head(path) = "/"

ValidationError(field, msg) == [Field |-> field, Message |-> msg]

\* (*ValidationError).prefix
prefix(ve, p) == IF ve = Nil THEN Nil ELSE ValidationError(<<p>> \o ve.Field, ve.Message)

\* (*ValidationError).prefixIdx
prefixIdx(ve, p, i) ==
    IF ve = Nil THEN Nil ELSE ValidationError(<<p, i>> \o ve.Field, ve.Message)

\* (*Listener).validate
ListenerValidate(l) ==
    IF l = Nil THEN ValidationError(<<>>, "listener is required")
    ELSE IF l.Addr = "" THEN ValidationError(<<"addr">>, "addr to listen on is required")
    ELSE Nil

\* (*Resolver).validate
ResolverValidate(r) ==
    IF r = Nil THEN ValidationError(<<>>, "resolver is required")
    ELSE IF r.Name = "" THEN ValidationError(<<"name">>, "name of resolver is required")
    ELSE IF r.Addr = "" THEN ValidationError(<<"addr">>, "addr of resolver is required")
    ELSE Nil

\* (*FileDB).validate
FileDBValidate(f) ==
    IF f.Path = <<>> THEN ValidationError(<<"path">>, "path to local file is required")
    ELSE IF IsAbs(f.Path) THEN ValidationError(<<"path">>, "path is not an absolute path")
    ELSE Nil

\* (*RedisDB).validate
RedisDBValidate(r) ==
    IF r.Addr = "" THEN ValidationError(<<"addr">>, "redis server address is required")
    ELSE IF r.DB < 0 THEN ValidationError(<<"db">>, "redis database must be zero or greater")
    ELSE Nil

\* faulty variant: a file section is validated without a look at redis
DBValidate_FileFirst(d) ==
    IF d.File # Nil THEN prefix(FileDBValidate(d.File), "file")
    ELSE IF d.Redis # Nil THEN prefix(RedisDBValidate(d.Redis), "redis")
    ELSE ValidationError(<<>>, "at least file, postgres or redis configuration is required")

\* (*DB).validate
DBValidate(d) ==
    IF d.File # Nil
    THEN IF d.Redis # Nil
         THEN ValidationError(<<"file">>, "only one database can be configured at once")
         ELSE prefix(FileDBValidate(d.File), "file")
    ELSE IF d.Redis # Nil
    THEN IF d.File # Nil
         THEN ValidationError(<<"redis">>, "only one database can be configured at once")
         ELSE prefix(RedisDBValidate(d.Redis), "redis")
    ELSE ValidationError(<<>>, "at least file, postgres or redis configuration is required")

\* the loop of Config.Validate over c.Resolvers, from index i (counted from
\* 1 here, from 0 in the Field): the first invalid resolver ends it
RECURSIVE ResolversValidate(_, _)
ResolversValidate(rs, i) ==
    IF i > Len(rs) THEN Nil
    ELSE IF ResolverValidate(rs[i]) # Nil
         THEN prefixIdx(ResolverValidate(rs[i]), "resolvers", i - 1)
         ELSE ResolversValidate(rs, i + 1)

\* (*Config).Validate
ConfigValidate(c) ==
    IF c.Version # 1 THEN ValidationError(<<"version">>, "unsupported config version")
    ELSE IF ListenerValidate(c.Listen) # Nil THEN prefix(ListenerValidate(c.Listen), "listen")
    ELSE IF ResolversValidate(c.Resolvers, 1) # Nil THEN ResolversValidate(c.Resolvers, 1)
    ELSE IF DBValidate(c.DB) # Nil THEN prefix(DBValidate(c.DB), "db")
    ELSE Nil

\* config.Read once the file is decoded into c
ConfigReadResult(c) ==
    LET d == IF c.Version < 1 THEN [c EXCEPT !.Version = 1] ELSE c
    IN  [c |-> d, err |-> ConfigValidate(d)]

\* getDB: the backend it opens, its error, and the file it leaves behind;
\* fault is a failed write of the new file, or a failed PING
getDB(d, disk, fault) ==
    IF d.File # Nil
    THEN LET n == FileInit(disk, fault)
         IN  [backend |-> IF n.err = NoErr THEN "file" ELSE "none",
              err |-> IF n.err = NoErr THEN NoErr ELSE Wrap("file", n.err),
              disk |-> n.disk]
    ELSE IF d.Redis # Nil
    THEN [backend |-> IF fault THEN "none" ELSE "redis",
          err |-> IF fault THEN Wrap("redis", Wrap("could not ping redis", NetErr))
                  ELSE NoErr,
          disk |-> disk]
    ELSE [backend |-> "none", err |-> <<"no database configured">>, disk |-> disk]

\* the configuration files the model reads: every section absent, invalid
\* in each way the code tests, and valid
ConfigVersions == {0, 1, 2}
Listeners == {Nil, [Addr |-> ""], [Addr |-> ":8080"]}
ResolverConfigs ==
    {Nil, [Name |-> "", Addr |-> "1.1.1.1:53"], [Name |-> "CloudFlare", Addr |-> ""],
     [Name |-> "CloudFlare", Addr |-> "1.1.1.1:53"]}
ResolverLists == UNION {[1..n -> ResolverConfigs] : n \in 0..NumResolvers}
FilePaths ==
    {<<>>, <<"/", "tmp", "/", "dennis.json">>, <<"dennis.json">>,
     <<"data", "/", "dennis.json">>}
FileDBs == {Nil} \cup {[Path |-> path] : path \in FilePaths}
RedisDBs ==
    {Nil, [Addr |-> "", DB |-> 0], [Addr |-> "localhost:6379", DB |-> 0],
     [Addr |-> "localhost:6379", DB |-> -1]}
Configs ==
    [Version : ConfigVersions, Listen : Listeners, Resolvers : ResolverLists,
     DB : [File : FileDBs, Redis : RedisDBs]]

\* main.run: cfg, err := config.Read(configFile), and exit code 2 on an error
ConfigRead ==
    /\ proc = "starting" /\ cfg.pc = "start"
    /\ LET r == ConfigReadResult(cfg.c)
       IN  IF r.err # Nil
           THEN /\ cfg' = [cfg EXCEPT !.pc = "exit", !.c = r.c, !.err = r.err, !.code = 2]
                /\ proc' = "exited"
           ELSE /\ cfg' = [cfg EXCEPT !.pc = "read", !.c = r.c]
                /\ proc' = proc
    /\ UNCHANGED <<backend, storeVars, mu, loaded, nextID, clock, faults, wg,
                   callVars, fanVars, taskVars, dbres, gres, gpc, clpc>>

\* main.run: conn, err := getDB(ctx, cfg.DB), exit code 1 on an error, and
\* on to NewServer and ListenAndServe
GetDB(fault) ==
    /\ proc = "starting" /\ cfg.pc = "read"
    /\ faults' = Count(fault)
    /\ LET r == getDB(cfg.c.DB, fileDoc, fault)
       IN  /\ backend' = r.backend
           /\ fileDoc' = r.disk
           /\ IF r.err # NoErr
              THEN /\ cfg' = [cfg EXCEPT !.pc = "exit", !.dberr = r.err, !.code = 1]
                   /\ proc' = "exited"
              ELSE /\ cfg' = [cfg EXCEPT !.pc = "serving"]
                   /\ proc' = "serving"
    /\ UNCHANGED <<redisKeys, mu, loaded, nextID, clock, wg, callVars, fanVars,
                   taskVars, dbres, gres, gpc, clpc>>

\* the process is started on a configuration file; no backend is open and
\* the file backend's path names no file
InitConfig ==
    /\ backend = "none"
    /\ proc = "starting"
    /\ fileDoc = NoFile
    /\ cfg \in [pc : {"start"}, c : Configs, err : {Nil}, dberr : {NoErr}, code : {0}]
    /\ InitCalls

NextConfig ==
    \/ ConfigRead
    \/ \E fault \in FaultChoices : GetDB(fault)

SpecConfig == InitConfig /\ [][NextConfig]_vars

(***************************************************************************)
(* Server.GetQuery on the file backend, in the two steps of DB.read, while *)
(* CreateQuery calls and their fan-outs run.                               *)
(***************************************************************************)
\* what Server.GetQuery makes of what s.db.GetQueryByID returned
GetQueryReply(res) ==
    IF ErrorsIs(res.err, ErrQueryNotFound)
    THEN [err |-> NotFound("Query not found by ID"), q |-> <<>>]
    ELSE IF res.err # NoErr THEN [err |-> res.err, q |-> <<>>]
    ELSE [err |-> NoErr, q |-> <<res.q>>]

\* Server.GetQuery up to readJSON inside DB.read; a request that fails
\* validation, and a read that fails, return at once
GetQueryFileRead(req, fault) ==
    /\ proc = "serving" /\ backend = "file"
    /\ gpc = "idle"
    /\ IF ~ReachesStorage(req)
       THEN /\ ~fault
            /\ gres' = [req |-> req, fault |-> "none", again |-> FALSE,
                        err |-> GetQueryResult(req, "none").err, q |-> <<>>]
            /\ UNCHANGED <<faults, mu, loaded, wg, gpc, cfg, clpc>>
       ELSE /\ MutexAvailable
            /\ faults' = Count(fault)
            /\ LET rd == readJSON(fileDoc, fault)
               IN  IF rd.err # NoErr
                   THEN /\ gres' = [req |-> req, fault |-> "read", again |-> FALSE,
                                    err |-> FileGetQueryByIDErr(rd.err), q |-> <<>>]
                        /\ UNCHANGED <<mu, loaded, wg, gpc, cfg, clpc>>
                   ELSE /\ gres' = [req |-> req, fault |-> "none", again |-> FALSE,
                                    err |-> NotCalled, q |-> <<>>]
                        /\ gpc' = "read"
                        /\ mu' = GQ
                        /\ loaded' = [loaded EXCEPT ![GQ] = rd.f]
                        /\ wg' = wg + 1
    /\ UNCHANGED <<backend, storeVars, nextID, clock, callVars, fanVars,
                   taskVars, proc, dbres, cfg, clpc>>

\* Server.GetQuery from fn inside DB.read to the unlock and the return
GetQueryFileReturn ==
    /\ Alive /\ backend = "file"
    /\ gpc = "read"
    /\ LET fn == FileGetQueryFn(loaded[GQ], FromString(gres.req.ID).id)
           res == GetQueryReply([err |-> FileGetQueryByIDErr(fn.err), q |-> fn.q])
       IN  gres' = [gres EXCEPT !.err = res.err, !.q = res.q]
    /\ gpc' = "idle"
    /\ mu' = NoProc
    /\ loaded' = [loaded EXCEPT ![GQ] = InitFormat]
    /\ wg' = wg - 1
    /\ UNCHANGED <<backend, storeVars, nextID, clock, faults, callVars, fanVars,
                   taskVars, proc, dbres, cfg, clpc>>

\* the orchestrator on storage that works, with a reader beside it
NextFile ==
    \/ Orchestrator(Calls, Requests, [r \in Resolvers |-> LiveOutcomes], {FALSE})
    \/ \E req \in GetRequests, fault \in FaultChoices : GetQueryFileRead(req, fault)
    \/ GetQueryFileReturn

SpecFile == Init /\ [][NextFile]_vars


(***************************************************************************)
(* Claims.                                                                 *)
(***************************************************************************)

\* C1: concurrent CreateLookup calls for one stored Query: every call that
\* returned success has its Lookup in that Query's Lookups exactly once, and
\* the Lookups hold nothing but those, under the file and the Redis backend.
C1_LookupsRetainedOnce ==
    \A c \in Calls :
        Stored(qobj[c].ID) =>
            /\ \A r \in Resolvers :
                tres[c][r] = NoErr => LookupsOf(qobj[c].ID, r) = 1
            /\ Len(StoredLookups(qobj[c].ID))
                = Cardinality({r \in Resolvers : tres[c][r] = NoErr})

\* both resolvers of one Query had their CreateLookup succeed, under the file
\* backend, while the other call's fan-out was writing too
C1_Witness ==
    \E c \in Calls :
        /\ backend = "file"
        /\ \A r \in Resolvers : tres[c][r] = NoErr
        /\ Len(StoredLookups(qobj[c].ID)) = NumResolvers
        /\ \E d \in Calls : d # c /\ Stored(qobj[d].ID)
                            /\ Len(StoredLookups(qobj[d].ID)) > 0

\* C2: for every accepted Query, db.UpdateQuery is called exactly once, and
\* only when every resolve task of the Query has returned.
C2_UpdateOnceAfterJoin ==
    \A c \in Calls :
        /\ updCalls[c] <= 1
        /\ updCalls[c] = 1 => \A r \in Resolvers : tpc[c][r] = "done"
        /\ rapc[c] = "done" => updCalls[c] = 1
        /\ rapc[c] \in {"none", "start", "wait"} => updCalls[c] = 0

\* a fan-out has finished: its one UpdateQuery was issued after a resolver's
\* CreateLookup succeeded
C2_Witness ==
    \E c \in Calls :
        /\ rapc[c] = "done"
        /\ updCalls[c] = 1
        /\ \E r \in Resolvers : tres[c][r] = NoErr

\* C3: no resolve task of a Query exists, and no CreateLookup for its ID is
\* attempted, before db.CreateQuery has stored the Query and returned nil.
C3_PersistedBeforeFanout ==
    \A c \in Calls :
        (rapc[c] # "none" \/ \E r \in Resolvers : tpc[c][r] # "none") =>
            /\ Stored(qobj[c].ID)
            /\ cerr[c] = NoErr
            /\ cpc[c] = "done"

\* a resolve task is about to call CreateLookup for its stored Query
C3_Witness ==
    \E c \in Calls, r \in Resolvers :
        tpc[c][r] = "lookup" /\ Stored(qobj[c].ID)

\* C4: from CreateQuery's entry until the Query's finalize step has returned
\* (or, for a rejected call, until CreateQuery has returned), Server.wg's
\* counter is above zero.
InLifetime(c) ==
    \/ cpc[c] \notin {"idle", "done"}
    \/ rapc[c] \notin {"none", "done"}

C4_CounterHeldForLifetime ==
    \A c \in Calls : InLifetime(c) => wg > 0

\* CreateQuery has returned, the resolveAll goroutine has not started yet and
\* nothing else is outstanding
C4_Witness ==
    \E c \in Calls :
        /\ cpc[c] = "done" /\ rapc[c] = "start"
        /\ \A d \in Calls : d # c => ~InLifetime(d)
        /\ wg = 1

\* C5: the process does not exit on an interrupt before Server.wg's counter
\* is zero and every fan-out has run its finalize step.
C5_ExitWaitsForFanouts ==
    proc = "exited" =>
        /\ wg = 0
        /\ \A c \in Calls : rapc[c] \in {"none", "done"}

\* C6: once a stored Query's FinishedAt is non-nil, it stays stored with that
\* same FinishedAt.
C6_FinishedAtStable ==
    [][\A id \in IDs :
        (Stored(id) /\ StoredQuery(id).FinishedAt # <<>>) =>
            (Stored(id)' /\ StoredQuery(id)'.FinishedAt = StoredQuery(id).FinishedAt)]_vars

\* a finished Query is stored while another Query's fan-out is still going on
C6_Witness ==
    \E c, d \in Calls :
        /\ Stored(qobj[c].ID)
        /\ StoredQuery(qobj[c].ID).FinishedAt # <<>>
        /\ rapc[d] \in {"wait", "update"}

\* C7: the stored Lookups of a Query never get shorter and never hold more
\* than NumResolvers entries.
C7_LookupsMonotoneBounded ==
    [][\A id \in IDs :
        /\ Stored(id) => (Stored(id)' /\ Len(StoredLookups(id)') >= Len(StoredLookups(id)))
        /\ Stored(id)' => Len(StoredLookups(id)') <= NumResolvers]_vars

\* a stored Query holds one Lookup per configured resolver
C7_Witness ==
    \E id \in IDs : Stored(id) /\ Len(StoredLookups(id)) = NumResolvers

\* C8: GetQueryByID for an ID that is not stored returns an error that
\* errors.Is recognises as db.ErrQueryNotFound (the call reaching the store).
C8_GetUnknownIsNotFound ==
    (dbres.op = "GetQueryByID" /\ ~dbres.stored /\ dbres.fault = "none") =>
        ErrorsIs(dbres.err, ErrQueryNotFound)

\* GetQueryByID was called under the file backend for an ID that is not in a
\* database that holds another Query
C8_Witness ==
    /\ dbres.op = "GetQueryByID" /\ ~dbres.stored /\ dbres.fault = "none"
    /\ backend = "file"
    /\ \E id \in IDs : Stored(id)

\* C9: UpdateQuery for an ID that is not stored returns an error that
\* errors.Is recognises as db.ErrQueryNotFound.
C9_UpdateUnknownIsNotFound ==
    (dbres.op = "UpdateQuery" /\ ~dbres.stored /\ dbres.fault = "none") =>
        ErrorsIs(dbres.err, ErrQueryNotFound)

\* C10: CreateLookup for an ID that is not stored returns an error that
\* errors.Is recognises as db.ErrQueryNotFound, and leaves the store as it was.
C10_LookupUnknownIsNotFound ==
    (dbres.op = "CreateLookup" /\ ~dbres.stored /\ dbres.fault = "none") =>
        /\ ErrorsIs(dbres.err, ErrQueryNotFound)
        /\ ~dbres.changed

\* C11: a resolver whose Exchange failed at transport level has no Lookup in
\* the Query and made no CreateLookup call; its task has returned and left
\* resolveAll's WaitGroup, and the CreateQuery call of the Query had returned
\* nil; the Lookups of the siblings that stored one are there.
C11_TransportFailureOmitted ==
    \A c \in Calls, r \in Resolvers :
        (xres[c][r].out.err \notin {NoErr, NotCalled}) =>
            /\ tpc[c][r] = "done"
            /\ xres[c][r].calls = 0 /\ tres[c][r] = NotCalled
            /\ cpc[c] = "done" /\ cerr[c] = NoErr
            /\ Stored(qobj[c].ID) => LookupsOf(qobj[c].ID, r) = 0
            /\ wgQ[c] = Cardinality({q \in Resolvers : tpc[c][q] # "done"})
            /\ \A q \in Resolvers :
                    (Stored(qobj[c].ID) /\ tres[c][q] = NoErr) => LookupsOf(qobj[c].ID, q) = 1

\* one resolver's Exchange failed, its sibling's Lookup is the only one
\* stored, and the finalize step has stored FinishedAt
C11_Witness ==
    \E c \in Calls, r, q \in Resolvers :
        /\ xres[c][r].out.err = TransportErr
        /\ tres[c][q] = NoErr
        /\ rapc[c] = "done" /\ uerr[c] = NoErr
        /\ Len(StoredLookups(qobj[c].ID)) = 1
        /\ StoredQuery(qobj[c].ID).FinishedAt # <<>>

\* C12: a task whose Exchange returned without a transport error calls
\* CreateLookup exactly once; the Lookup it stores has, for a response code
\* other than success, that code's string as its Error and no Records, and
\* for success an empty Error and the normalized answers as its Records.
\* So no stored Lookup has both an Error and Records, and every Error is
\* the string of a response code other than success.
LookupsBy(id, r) ==
    {i \in 1..Len(StoredLookups(id)) : StoredLookups(id)[i].Resolver = resolverName(r)}

C12_LookupShape ==
    \A c \in Calls, r \in Resolvers :
        LET out == xres[c][r].out
        IN  /\ xres[c][r].calls <= 1
            /\ (out.err = NoErr /\ tpc[c][r] = "done") => xres[c][r].calls = 1
            /\ Stored(qobj[c].ID) =>
                    \A i \in LookupsBy(qobj[c].ID, r) :
                        LET l == StoredLookups(qobj[c].ID)[i]
                        IN  /\ out.err = NoErr
                            /\ out.rcode # RcodeSuccess =>
                                    /\ l.Error # ""
                                    /\ l.Error = RcodeToString(out.rcode)
                                    /\ l.Records = <<>>
                            /\ out.rcode = RcodeSuccess =>
                                    /\ l.Error = ""
                                    /\ l.Records = Records(out.answers)
                            /\ ~(l.Error # "" /\ l.Records # <<>>)

\* the same for the response codes dns.RcodeToString has a name for
C12_NamedRcodes ==
    (\A c \in Calls, r \in Resolvers : RcodeToString(xres[c][r].out.rcode) # "")
        => C12_LookupShape

\* resolver 1 answered with the one A record (TTL 300, 93.184.216.34),
\* every other resolver (the one, with two configured) timed out, and the
\* fan-out of call c has ended
ScenarioRan(c) ==
    /\ xres[c][1].out = [err |-> NoErr, rcode |-> RcodeSuccess, answers |-> <<AnswerA>>]
    /\ \A r \in Resolvers \ {1} : xres[c][r].out.err = TransportErr
    /\ rapc[c] = "done"

\* the stored Query of call c has the one Lookup of resolver 1 with that
\* record, FinishedAt set, and nothing of the resolvers that timed out
ScenarioResult(c) ==
    /\ Stored(qobj[c].ID)
    /\ Len(StoredLookups(qobj[c].ID)) = 1
    /\ StoredLookups(qobj[c].ID)[1].Resolver = resolverName(1)
    /\ StoredLookups(qobj[c].ID)[1].Error = ""
    /\ StoredLookups(qobj[c].ID)[1].Records
            = <<NewRecord(300, <<"93.184.216.34">>)>>
    /\ \A r \in Resolvers \ {1} : LookupsOf(qobj[c].ID, r) = 0
    /\ StoredQuery(qobj[c].ID).FinishedAt # <<>>
    /\ StoredQuery(qobj[c].ID).Name = creq[c].Name

\* C13 as stated: CreateQuery(type "A", name "example.com.") is accepted
\* and, resolver 1 answering and resolver 2 timing out, ends with the one
\* Lookup, FinishedAt set and nothing recorded of resolver 2.
C13_ScenarioTrailingDot ==
    \A c \in Calls :
        (creq[c] = [Type |-> "A", Name |-> ExampleCom \o <<".">>] /\ cpc[c] = "done") =>
            /\ cerr[c] = NoErr
            /\ ScenarioRan(c) => ScenarioResult(c)

\* C13 amended: the same for CreateQuery(type "A", name "example.com").
C13_Scenario ==
    \A c \in Calls :
        (creq[c] = [Type |-> "A", Name |-> ExampleCom] /\ cpc[c] = "done") =>
            /\ cerr[c] = NoErr
            /\ ScenarioRan(c) => ScenarioResult(c)

\* the scenario has run for "example.com" while the other call was served
C13_Witness ==
    \E c, d \in Calls :
        /\ creq[c] = [Type |-> "A", Name |-> ExampleCom]
        /\ ScenarioRan(c) /\ ScenarioResult(c)
        /\ d # c /\ cpc[d] = "done"

\* C14: the Query a successful CreateQuery call returns has an ID that is not
\* the nil UUID and is no other call's Query ID, is stored under that ID
\* (once), and has no Lookups.
C14_ReturnedQueryFresh ==
    \A c \in Calls :
        (cpc[c] = "done" /\ cerr[c] = NoErr) =>
            /\ qobj[c].ID # NilID
            /\ \A d \in Calls : d # c => qobj[d].ID # qobj[c].ID
            /\ qobj[c].Lookups = <<>>
            /\ Stored(qobj[c].ID)
            /\ StoredQuery(qobj[c].ID).ID = qobj[c].ID
            /\ backend = "file" => Cardinality(FileHits(qobj[c].ID)) = 1

\* both calls have returned a Query, and one of the stored Queries already
\* has a Lookup
C14_Witness ==
    /\ \A c \in Calls : cpc[c] = "done" /\ cerr[c] = NoErr
    /\ \E c \in Calls : Len(StoredLookups(qobj[c].ID)) > 0

\* C15: once the Query is persisted, CreateQuery's launch-and-return step can
\* be taken whatever the fan-out is doing, and when the fan-out goroutine is
\* started the call has returned its Query with no resolve task begun and no
\* UpdateQuery issued.
C15_ReturnDoesNotWait ==
    \A c \in Calls :
        /\ (Alive /\ cpc[c] = "launch") => ENABLED CreateQueryLaunch(c)
        /\ rapc[c] = "start" =>
                /\ cpc[c] = "done" /\ cerr[c] = NoErr
                /\ \A r \in Resolvers : tpc[c][r] = "none"
                /\ updCalls[c] = 0

\* CreateQuery has returned and every resolve task of its Query is still
\* waiting for its resolver
C15_Witness ==
    \E c \in Calls :
        /\ cpc[c] = "done" /\ cerr[c] = NoErr
        /\ \A r \in Resolvers : tpc[c][r] = "exchange"
        /\ Len(StoredLookups(qobj[c].ID)) = 0

\* C16: a call whose request fails validation has its BadRequest error at
\* once, never reaches db.CreateQuery (no ID is drawn, its Query is never
\* built), starts no resolveAll and no resolve task, and Server.wg counts it
\* only until it has returned; no stored Query has a request that fails
\* validation.
Rejected(c) == cpc[c] # "idle" /\ CreateQueryRequestValidate(creq[c]) # NoErr

C16_RejectedLeavesNoTrace ==
    /\ \A c \in Calls :
            Rejected(c) =>
                /\ cpc[c] \in {"return", "done"}
                /\ cerr[c] = CreateQueryRequestValidate(creq[c])
                /\ cerr[c][1] = "BadRequest"
                /\ qobj[c] = NewQuery(NoRequest)
                /\ rapc[c] = "none" /\ updCalls[c] = 0
                /\ \A r \in Resolvers : tpc[c][r] = "none" /\ xres[c][r] = NoExchange
    /\ wg = Cardinality({c \in Calls : cpc[c] \notin {"idle", "done"}})
            + Cardinality({c \in Calls : rapc[c] \notin {"none", "done"}})
    /\ nextID - 1 = Cardinality({c \in Calls : qobj[c].ID # NilID})
    /\ \A id \in IDs :
            Stored(id) =>
                CreateQueryRequestValidate([Type |-> StoredQuery(id).Type,
                                            Name |-> StoredQuery(id).Name]) = NoErr

\* a rejected call has returned while the other call's Query is stored and
\* its fan-out is the one operation Server.wg counts
C16_Witness ==
    \E c, d \in Calls :
        /\ Rejected(c) /\ cpc[c] = "done"
        /\ Stored(qobj[d].ID) /\ rapc[d] = "wait"
        /\ wg = 1

\* C17: whenever the request context of a call is canceled, no CreateLookup
\* and no UpdateQuery of its fan-out fails with context.Canceled, and a
\* resolve task waiting for its resolver can still get its answer; the
\* fan-out context ends only by its own deadline, which runs from the start
\* of the fan-out.
C17_CancelDoesNotReachFanout ==
    \A c \in Calls :
        /\ ~ErrorsIs(uerr[c], Canceled)
        /\ dl[c] => rapc[c] \in {"wait", "update", "update_w"}
        /\ \A r \in Resolvers :
                /\ ~ErrorsIs(tres[c][r], Canceled)
                /\ (Alive /\ tpc[c][r] = "exchange" /\ ~dl[c]) =>
                        ENABLED resolveExchange(c, r,
                                    [err |-> NoErr, rcode |-> RcodeSuccess,
                                     answers |-> <<AnswerA>>])

\* the request context was canceled before the fan-out started its tasks;
\* under the Redis backend every resolver's Lookup was stored all the same
\* and the finalize step succeeded
C17_Witness ==
    \E c \in Calls :
        /\ backend = "redis"
        /\ rcancel[c] = "before"
        /\ \A r \in Resolvers : tres[c][r] = NoErr
        /\ rapc[c] = "done" /\ uerr[c] = NoErr
        /\ StoredQuery(qobj[c].ID).FinishedAt # <<>>

\* C18: when every goroutine gets to run, every Exchange returns and storage
\* works, each Query that CreateQuery accepted eventually is stored with
\* FinishedAt set, and the outstanding-operations counter, once raised,
\* eventually is back at zero.
C18_EventuallyFinished ==
    /\ \A c \in Calls :
            (rapc[c] # "none") ~>
                (Stored(qobj[c].ID) /\ StoredQuery(qobj[c].ID).FinishedAt # <<>>)
    /\ (wg > 0) ~> (wg = 0)

\* every call was accepted, one resolver of the first call failed to answer,
\* and still both Queries are stored finished and the counter is at zero
C18_Witness ==
    /\ wg = 0
    /\ \A c \in Calls :
            /\ rapc[c] = "done"
            /\ Stored(qobj[c].ID) /\ StoredQuery(qobj[c].ID).FinishedAt # <<>>
    /\ \E r \in Resolvers : xres[1][r].out.err # NoErr

\* C20: a call of UpdateQuery, whatever Query it is passed and whatever it
\* returns, leaves every stored Query stored with the ID, Type, Name, Lookups
\* and CreatedAt it had; only FinishedAt can differ.  Both backends.
C20_UpdateQueryKeepsRest ==
    [][dbres'.op = "UpdateQuery" =>
        \A id \in IDs :
            Stored(id) =>
                /\ Stored(id)'
                /\ [StoredQuery(id) EXCEPT !.FinishedAt = <<>>]
                    = [StoredQuery(id)' EXCEPT !.FinishedAt = <<>>]]_vars

\* the file backend has just rewritten its file for an UpdateQuery whose
\* argument had type MX and no Lookups; the stored Query took its FinishedAt
\* and still has type A and the Lookups it had
C20_Witness ==
    /\ backend = "file"
    /\ dbres.op = "UpdateQuery" /\ dbres.err = NoErr /\ dbres.changed
    /\ Stored(dbres.id)
    /\ StoredQuery(dbres.id).FinishedAt # <<>>
    /\ StoredQuery(dbres.id).Type = "A"
    /\ Len(StoredLookups(dbres.id)) > 0

\* C19: a call of Server.GetQuery, whatever ID text it is given (none, not
\* a UUID, the UUID of a stored or of an unknown Query), leaves the store, the
\* set of stored Queries and each of their fields as they were, and a call
\* repeated right after with the same request under the same storage
\* conditions returns what the one before returned.
C19_GetQueryReadsOnly ==
    [][dbres'.op = "Server.GetQuery" =>
        /\ UNCHANGED <<fileDoc, redisKeys, wg>>
        /\ \A id \in IDs :
                /\ Stored(id)' = Stored(id)
                /\ Stored(id) => StoredQuery(id)' = StoredQuery(id)
        /\ (gres'.again /\ gres'.fault = gres.fault) =>
                (gres'.err = gres.err /\ gres'.q = gres.q)]_vars

\* GetQuery, asked twice in a row for a stored Query that has Lookups and is
\* finished, returned that Query
C19_Witness ==
    /\ dbres.op = "Server.GetQuery"
    /\ gres.again /\ gres.err = NoErr
    /\ Stored(dbres.id) /\ gres.q = <<StoredQuery(dbres.id)>>
    /\ Len(gres.q[1].Lookups) > 0 /\ gres.q[1].FinishedAt # <<>>

\* C21: once the finalize UpdateQuery of a Query has failed, its fan-out is
\* over: that was its only UpdateQuery, the stored Query has no FinishedAt,
\* the error CreateQuery returned is still nil, and Server.wg counts only the
\* calls and fan-outs that are still running.
C21_FailedFinalizeIsFinal ==
    \A c \in Calls :
        uerr[c] \notin {NoErr, NotCalled} =>
            /\ rapc[c] = "done"
            /\ updCalls[c] = 1
            /\ Stored(qobj[c].ID) /\ StoredQuery(qobj[c].ID).FinishedAt = <<>>
            /\ cpc[c] = "done" /\ cerr[c] = NoErr
            /\ wg = Cardinality({d \in Calls : cpc[d] \notin {"idle", "done"}})
                    + Cardinality({d \in Calls : rapc[d] \notin {"none", "done"}})

\* the finalize UpdateQuery of a Query failed after a Lookup had been stored
\* for it, and nothing is outstanding any more
C21_Witness ==
    \E c \in Calls :
        /\ uerr[c] \notin {NoErr, NotCalled}
        /\ Len(StoredLookups(qobj[c].ID)) > 0
        /\ \A d \in Calls : ~InLifetime(d)
        /\ wg = 0

\* the goroutines that are between readJSON and the end of DB.read or
\* DB.write of the file backend
InCycle ==
    {CQ(c) : c \in {d \in Calls : cpc[d] = "persist_w"}}
        \cup {RA(c) : c \in {d \in Calls : rapc[d] = "update_w"}}
        \cup {p \in {RS(c, r) : c \in Calls, r \in Resolvers} : tpc[p[2]][p[3]] = "lookup_w"}
        \cup (IF gpc = "read" THEN {GQ} ELSE {})

\* C22: under the file backend at most one of the CreateQuery, GetQueryByID,
\* UpdateQuery and CreateLookup calls is between its load of the document
\* and its write-back (for a read: its return), and it is the holder of
\* DB.mu; the document on disk is the one it loaded.
C22_OneCycleAtATime ==
    backend = "file" =>
        /\ Cardinality(InCycle) <= 1
        /\ InCycle = {mu} \ {NoProc}
        /\ \A p \in InCycle : MarshalFormat(loaded[p]) = fileDoc

\* a resolve task is inside CreateLookup's cycle while the reader, another
\* resolve task and the other call's CreateQuery are about to load
C22_Witness ==
    /\ backend = "file"
    /\ \E c \in Calls, r \in Resolvers :
            /\ InCycle = {RS(c, r)}
            /\ \E q \in Resolvers : tpc[c][q] = "lookup"
            /\ \E d \in Calls : cpc[d] = "persist"
    /\ gpc = "idle" /\ gres.err # NotCalled

\* the answer rr and the Records recs made of it, for a task at "lookup"
Built ==
    {<<xres[c][r].out.answers[1], tl[c][r].Records>> :
        <<c, r>> \in {p \in Calls \X Resolvers : tpc[p[1]][p[2]] = "lookup"}}

SupportedTypes ==
    {"A", "AAAA", "CAA", "CNAME", "DNSKEY", "MX", "NS", "PTR", "SOA", "SRV",
     "SVCB", "TXT"}

\* Weight and Port only for SRV, Tag only for CAA, one Record with the TTL
\* for every supported type and none for any other
RecordFieldsByType(rr, recs) ==
    IF rr.Type \notin SupportedTypes THEN recs = <<>>
    ELSE /\ Len(recs) = 1
         /\ recs[1].TTL = rr.TTL /\ recs[1].Content # <<>>
         /\ recs[1].Weight = (IF rr.Type = "SRV" THEN rr.Weight ELSE 0)
         /\ recs[1].Port = (IF rr.Type = "SRV" THEN rr.Port ELSE 0)
         /\ recs[1].Tag = (IF rr.Type = "CAA" THEN rr.Tag ELSE "")

Configured(d) ==
    (IF d.File # Nil THEN {"file"} ELSE {}) \cup (IF d.Redis # Nil THEN {"redis"} ELSE {})

\* config.Read has returned
ReadDone == cfg.pc # "start"

\* C24: config.Read accepts a configuration only when its db section
\* configures exactly one backend (it returns an error when both file and
\* redis are set and when neither is), and the backend main.run serves on is
\* the configured one.
C24_ExactlyOneBackend ==
    /\ ReadDone /\ cfg.err = Nil => Cardinality(Configured(cfg.c.DB)) = 1
    /\ ReadDone /\ Cardinality(Configured(cfg.c.DB)) # 1 => cfg.err # Nil /\ cfg.code = 2
    /\ cfg.pc = "serving" => Configured(cfg.c.DB) = {backend}

C24_Witness ==
    /\ cfg.pc = "serving" /\ backend = "file" /\ cfg.c.DB.Redis = Nil
    /\ fileDoc # NoFile

\* the sections Config.Validate looks at before the db section are valid
BeforeDBValid(c) ==
    /\ c.Version = 1
    /\ ListenerValidate(c.Listen) = Nil
    /\ ResolversValidate(c.Resolvers, 1) = Nil

\* C25: config.Read returns an error for a configuration with no resolvers.
C25_NoResolversRejected ==
    ReadDone /\ cfg.c.Resolvers = <<>> => cfg.err # Nil

\* C26: for a file section (and no redis section) in an otherwise valid
\* configuration, an absolute path is accepted, the error "path is not an
\* absolute path" is returned only for a path that is not absolute, and an
\* empty path is reported as required.
C26_AbsolutePathAccepted ==
    ReadDone /\ BeforeDBValid(cfg.c) /\ Configured(cfg.c.DB) = {"file"} =>
        LET path == cfg.c.DB.File.Path
        IN  /\ IsAbs(path) => cfg.err = Nil
            /\ cfg.err # Nil /\ cfg.err.Message = "path is not an absolute path"
                   => ~IsAbs(path)
            /\ path = <<>> =>
                   cfg.err = ValidationError(<<"db", "file", "path">>,
                                             "path to local file is required")

\* what the code does with the path of a file section: it accepts exactly
\* the paths that are not absolute
C26_RelativePathAccepted ==
    ReadDone /\ BeforeDBValid(cfg.c) /\ Configured(cfg.c.DB) = {"file"} =>
        LET path == cfg.c.DB.File.Path
        IN  /\ cfg.err = Nil <=> path # <<>> /\ ~IsAbs(path)
            /\ IsAbs(path) =>
                   cfg.err = ValidationError(<<"db", "file", "path">>,
                                             "path is not an absolute path")
            /\ path = <<>> =>
                   cfg.err = ValidationError(<<"db", "file", "path">>,
                                             "path to local file is required")

(***************************************************************************)
(* Storage claims over every operation of the db.DB interface.             *)
(***************************************************************************)
\* how many Queries the backend in use holds
StoredCount ==
    IF backend = "file" THEN Len(fileDoc.queries) ELSE Cardinality(DOMAIN redisKeys)

\* the fields of a Query that are set at its creation
Identity(q) == [ID |-> q.ID, Type |-> q.Type, Name |-> q.Name, CreatedAt |-> q.CreatedAt]

C29_FinishedLookupsFinal ==
    /\ [][\A id \in IDs :
            (Stored(id) /\ StoredQuery(id).FinishedAt # <<>>) =>
                (Stored(id)' /\ StoredLookups(id)' = StoredLookups(id))]_vars
    /\ [](\A c \in Calls :
            (Stored(qobj[c].ID) /\ StoredQuery(qobj[c].ID).FinishedAt # <<>>) =>
                /\ \A r \in Resolvers : tpc[c][r] = "done"
                /\ Len(StoredLookups(qobj[c].ID))
                    = Cardinality({r \in Resolvers : tres[c][r] = NoErr}))

\* a Query is stored finished with a Lookup of every resolver while a resolve
\* task of another Query is about to call CreateLookup
C29_Witness ==
    \E c, d \in Calls :
        /\ Stored(qobj[c].ID) /\ StoredQuery(qobj[c].ID).FinishedAt # <<>>
        /\ Len(StoredLookups(qobj[c].ID)) = NumResolvers
        /\ d # c /\ \E r \in Resolvers : tpc[d][r] = "lookup"

\* the resolve tasks of call c that have started and not returned
Running(c) == {r \in Resolvers : tpc[c][r] \notin {"none", "done"}}

\* C30: a call has no resolve task before its fan-out starts and never one
\* if it was rejected; from then on it has one task per configured resolver,
\* each registered once with resolveAll's WaitGroup; a task calls CreateLookup
\* at most once; and a stored Query holds at most one Lookup per resolver
\* name, each naming a configured resolver.
C30_OneTaskOneLookup ==
    \A c \in Calls :
        /\ cerr[c] # NoErr => rapc[c] = "none"
        /\ rapc[c] \in {"none", "start"} =>
                \A r \in Resolvers : tpc[c][r] = "none" /\ xres[c][r].calls = 0
        /\ rapc[c] \notin {"none", "start"} =>
                /\ \A r \in Resolvers : tpc[c][r] # "none"
                /\ rapc[c] = "wait" => wgQ[c] = Cardinality(Running(c))
        /\ \A r \in Resolvers : xres[c][r].calls <= 1
        /\ Stored(qobj[c].ID) =>
                /\ \A r \in Resolvers : LookupsOf(qobj[c].ID, r) <= 1
                /\ \A i \in 1..Len(StoredLookups(qobj[c].ID)) :
                        \E r \in Resolvers :
                            StoredLookups(qobj[c].ID)[i].Resolver = resolverName(r)

\* under the file backend every task of a finished fan-out has called
\* CreateLookup once, and the Query holds one Lookup of each resolver
C30_Witness ==
    \E c \in Calls :
        /\ backend = "file" /\ rapc[c] = "done"
        /\ \A r \in Resolvers : xres[c][r].calls = 1 /\ LookupsOf(qobj[c].ID, r) = 1

(***************************************************************************)
(* Error kinds of Server.GetQuery, over SpecGet.                           *)
(***************************************************************************)
\* the kind of an error a Server method returned: the Code of an *apiv1.Error,
\* "Internal" for any other error
ErrorKind(err) ==
    IF err = NoErr THEN "none"
    ELSE IF err[1] \in {"BadRequest", "NotFound"} THEN err[1]
    ELSE "Internal"

\* the storage call of the last Server.GetQuery met a fault: the file could
\* not be read, or the Redis command failed
GetFault == IF backend = "file" THEN gres.fault = "read" ELSE gres.fault # "none"

\* C31: Server.GetQuery returns a BadRequest error, whatever the state of
\* storage, when the ID is empty or no UUID; for a UUID it returns a NotFound
\* error when storage works and holds no Query of that ID, the stored Query
\* when storage works and holds one, and the storage fault as an error that
\* is neither NotFound nor BadRequest when storage fails.
C31_GetQueryErrorKinds ==
    dbres.op = "Server.GetQuery" =>
        /\ ~ReachesStorage(gres.req) =>
                ErrorKind(gres.err) = "BadRequest" /\ gres.err[2] = ".id"
        /\ ReachesStorage(gres.req) =>
            LET id == FromString(gres.req.ID).id
            IN  /\ GetFault => ErrorKind(gres.err) = "Internal"
                /\ ~GetFault /\ ~Stored(id) => ErrorKind(gres.err) = "NotFound"
                /\ ~GetFault /\ Stored(id) =>
                        gres.err = NoErr /\ gres.q = <<StoredQuery(id)>>

\* under the file backend GetQuery has just reported an unknown UUID as
\* NotFound while another Query was stored
C31_Witness ==
    /\ dbres.op = "Server.GetQuery" /\ backend = "file"
    /\ ReachesStorage(gres.req) /\ ~GetFault
    /\ ~Stored(FromString(gres.req.ID).id)
    /\ ErrorKind(gres.err) = "NotFound"
    /\ \E id \in IDs : Stored(id)

(***************************************************************************)
(* Request validation, over SpecValidate.                                  *)
(***************************************************************************)
\* the position of the last "." of name n, 0 when it has none
LastDot(n) ==
    IF \E i \in 1..Len(n) : n[i] = "."
    THEN CHOOSE i \in 1..Len(n) : n[i] = "." /\ \A j \in (i + 1)..Len(n) : n[j] # "."
    ELSE 0

\* the hostname pattern read off its text: lower-case letters, digits,
\* hyphens and dots, at least one of them, up to the last dot; after it an
\* optional xn-- and 1 to 18 lower-case letters or digits
MatchesHostname(n) ==
    LET d == LastDot(n)
        t == SubSeq(n, d + 1, Len(n))
        u == IF Len(t) >= 4 /\ SubSeq(t, 1, 4) = <<"x", "n", "-", "-">>
             THEN SubSeq(t, 5, Len(t)) ELSE t
    IN  /\ d >= 2
        /\ \A j \in 1..(d - 1) : n[j] \in HostChars
        /\ Len(u) \in 1..18
        /\ \A j \in 1..Len(u) : u[j] \in AlnumChars

EndedByDeadline(c) ==
    \E r \in Resolvers : xres[c][r].out.err \notin {NoErr, NotCalled}

\* C33: when a resolve task of a Query ended because the fan-out deadline
\* expired, and the fan-out is over, every resolver that answered has its
\* Lookup stored, the finalize UpdateQuery returned nil and the stored Query
\* has FinishedAt set.
C33_DeadlineSparesStorage ==
    (rapc[1] = "done" /\ EndedByDeadline(1)) =>
        /\ \A r \in Resolvers :
                xres[1][r].out.err = NoErr =>
                    tres[1][r] = NoErr /\ LookupsOf(qobj[1].ID, r) = 1
        /\ uerr[1] = NoErr
        /\ StoredQuery(qobj[1].ID).FinishedAt # <<>>

\* what the code does: the statement of C33 holds under the file backend,
\* whose methods ignore their context; under the Redis backend every command
\* issued after the deadline fails with the context's error, and the Query
\* stays without FinishedAt
C33_OnlyFileBackendFinishes ==
    (rapc[1] = "done" /\ EndedByDeadline(1)) =>
        IF backend = "file"
        THEN /\ \A r \in Resolvers :
                    xres[1][r].out.err = NoErr =>
                        tres[1][r] = NoErr /\ LookupsOf(qobj[1].ID, r) = 1
             /\ uerr[1] = NoErr
             /\ StoredQuery(qobj[1].ID).FinishedAt # <<>>
        ELSE /\ ErrorsIs(uerr[1], DeadlineExceeded)
             /\ StoredQuery(qobj[1].ID).FinishedAt = <<>>
             /\ \A r \in Resolvers :
                    tres[1][r] \notin {NoErr, NotCalled} =>
                        ErrorsIs(tres[1][r], DeadlineExceeded)

(***************************************************************************)
(* The *models.Query shared by CreateQuery's caller and resolveAll.        *)
(***************************************************************************)
\* C34: once CreateQuery has returned a Query to its caller, that object has
\* no FinishedAt and no Lookups, whatever its fan-out has done since.
C34_ReturnedQueryUntouched ==
    \A c \in Calls :
        (cpc[c] = "done" /\ cerr[c] = NoErr) =>
            qobj[c].FinishedAt = <<>> /\ qobj[c].Lookups = <<>>

\* what the code does: the object's Lookups stay empty, and resolveAll sets
\* its FinishedAt when the resolve tasks are joined, before db.UpdateQuery
C34_FinishedAtSetAtJoin ==
    \A c \in Calls :
        (cpc[c] = "done" /\ cerr[c] = NoErr) =>
            /\ qobj[c].Lookups = <<>>
            /\ qobj[c].FinishedAt # <<>> <=> rapc[c] \in {"update", "update_w", "done"}

(***************************************************************************)
(* Server.Close, over SpecClose.                                           *)
(***************************************************************************)
\* no CreateQuery call, fan-out, resolve task or storage call of the Server
\* is in progress
Quiescent ==
    \A c \in Calls :
        /\ cpc[c] \in {"idle", "done"}
        /\ rapc[c] \in {"none", "done"}
        /\ \A r \in Resolvers : tpc[c][r] \in {"none", "done"}

\* C35 as stated: once Server.Close has returned, no fan-out work of the
\* Server is in progress, ever.
C35_NothingAfterClose == clpc.pc = "returned" => Quiescent

\* C35, amended: at the moment Server.Close returns, Server.wg's counter is
\* zero and every call and fan-out begun before is over; a fan-out that is in
\* progress later belongs to a CreateQuery call that was made after Close
\* had returned, which the Server serves like any other.
C35_CloseWaitsForBegun ==
    /\ [][clpc.pc = "wait" /\ clpc'.pc = "returned" => wg = 0 /\ Quiescent']_vars
    /\ [][clpc.pc = "returned" =>
            \A c \in Calls :
                (rapc[c] \in {"none", "done"} /\ rapc'[c] \notin {"none", "done"})
                    => cpc[c] = "launch"]_vars
    /\ []((clpc.pc = "returned" /\ proc = "serving"
                /\ \E c \in Calls : cpc[c] = "idle") =>
            ENABLED (\E c \in Calls, req \in Requests : CreateQueryBegin(c, req)))

\* Close was called while calls or fan-outs were outstanding and has
\* returned, every Query stored by then being finished; a call made
\* afterwards has its fan-out running
C35_Witness ==
    /\ clpc.pc = "returned" /\ clpc.seen > 0
    /\ \E c, d \in Calls :
        /\ rapc[c] = "done" /\ StoredQuery(qobj[c].ID).FinishedAt # <<>>
        /\ rapc[d] = "wait"

(***************************************************************************)
(* A CreateQuery call whose db.CreateQuery failed, over Spec.              *)
(***************************************************************************)
\* db.CreateQuery of call c has returned an error
PersistFailed(c) ==
    cpc[c] \in {"return", "done"} /\ CreateQueryRequestValidate(creq[c]) = NoErr
        /\ cerr[c] # NoErr

\* C36: a call whose db.CreateQuery failed returns the storage error (the
\* backend's fault, wrapped by the backend only), has no resolveAll, no
\* resolve task, no Exchange, no CreateLookup and no UpdateQuery, its Query
\* is not stored, and on its return step Server.wg's counter goes back to
\* the value it had before the call's own Add(1).
C36_FailedPersistStartsNothing ==
    /\ [](\A c \in Calls :
            PersistFailed(c) =>
                /\ ErrorKind(cerr[c]) = "Internal"
                /\ ErrorsIs(cerr[c], IF backend = "file" THEN IOErr ELSE NetErr)
                /\ rapc[c] = "none" /\ updCalls[c] = 0 /\ uerr[c] = NotCalled
                /\ \A r \in Resolvers :
                        tpc[c][r] = "none" /\ xres[c][r] = NoExchange
                            /\ tres[c][r] = NotCalled
                /\ ~Stored(qobj[c].ID))
    /\ [][\A c \in Calls :
            (PersistFailed(c) /\ cpc[c] = "return" /\ cpc'[c] = "done") =>
                wg' = wg - 1]_vars
    /\ [](wg = Cardinality({c \in Calls : cpc[c] \notin {"idle", "done"}})
                + Cardinality({c \in Calls : rapc[c] \notin {"none", "done"}}))

\* under the Redis backend a call whose db.CreateQuery failed has returned,
\* the other call's Query is stored and finished, and nothing is outstanding
C36_Witness ==
    \E c, d \in Calls :
        /\ backend = "redis"
        /\ PersistFailed(c) /\ cpc[c] = "done"
        /\ rapc[d] = "done" /\ Stored(qobj[d].ID)
        /\ wg = 0

(***************************************************************************)
(* Frame conditions of the storage calls, over SpecDB.                     *)
(***************************************************************************)
\* C37: under the file backend, an UpdateQuery or CreateLookup whose ID is
\* not in the document returns an error and leaves the file as it was; the
\* file is not written at all, so unless the file could not be read the
\* error is ErrQueryNotFound even when a write would have failed.
C37_FileMissLeavesFile ==
    [][(backend = "file" /\ dbres'.op \in {"UpdateQuery", "CreateLookup"}
            /\ ~dbres'.stored) =>
        /\ fileDoc' = fileDoc
        /\ dbres'.err # NoErr
        /\ dbres'.fault # "read" => ErrorsIs(dbres'.err, ErrQueryNotFound)]_vars

\* a CreateLookup for an unknown ID has returned ErrQueryNotFound, on storage
\* whose write would have failed, and the file holds a Query with a Lookup
C37_Witness ==
    /\ backend = "file"
    /\ dbres.op = "CreateLookup" /\ ~dbres.stored /\ dbres.fault = "write"
    /\ ErrorsIs(dbres.err, ErrQueryNotFound)
    /\ \E id \in IDs : Stored(id) /\ Len(StoredLookups(id)) > 0

\* C38: a CreateLookup that returns nil leaves every stored Query other
\* than its target exactly as it was, stores no new Query, and changes its
\* target only by appending the Lookup it was given at the end of Lookups,
\* under both backends.
C38_CreateLookupAppendsOnly ==
    [][(dbres'.op = "CreateLookup" /\ dbres'.err = NoErr) =>
        \E t \in IDs :
            /\ t = dbres'.id
            /\ Stored(t)
            /\ \A id \in IDs :
                /\ Stored(id)' = Stored(id)
                /\ (Stored(id) /\ id # t) => StoredQuery(id)' = StoredQuery(id)
            /\ \E l \in DBLookups :
                    StoredQuery(t)'
                        = [StoredQuery(t) EXCEPT !.Lookups = Append(@, l)]]_vars

\* a CreateLookup has added a second Lookup to a finished Query while
\* another Query with a Lookup is stored
C38_Witness ==
    /\ dbres.op = "CreateLookup" /\ dbres.err = NoErr
    /\ Len(StoredLookups(dbres.id)) = 2
    /\ StoredQuery(dbres.id).FinishedAt # <<>>
    /\ \E id \in IDs : id # dbres.id /\ Stored(id) /\ Len(StoredLookups(id)) > 0

====
